---------------------------- MODULE Spec2Model ----------------------------
(***************************************************************************)
(* LevelForge example programs: the 2D brick game (src/demo_2d.cpp, Box2D) *)
(* and the 3D target game (src/demo_3d.cpp, Jolt).  One behaviour of this  *)
(* module is one run of one of the two programs; `variant' says which.     *)
(* A frame of a program is a sequence of steps, one per block of its frame *)
(* loop; `pc' is the block that runs next.                                 *)
(*                                                                         *)
(* Units: positions are integers in 1/60 m (the 3D paddle moves            *)
(* PADDLE_SPEED * deltaTime = 8/60 m per frame), velocities are integers   *)
(* in mm/s.  The physics engines are outside the repository: a step of     *)
(* theirs is a choice among small sets of ball positions, ball velocities  *)
(* and contact-begin events.                                               *)
(***************************************************************************)
EXTENDS Integers, Sequences, FiniteSets, TLC

VARIABLES
    variant,        \* "2D" or "3D": which program runs
    pc,             \* the block of the frame loop that runs next
    game,           \* 2D: struct GameState (demo_2d.cpp 57-68)
    world,          \* 2D: the Box2D world behind game.worldId
    gameState,      \* 3D: struct GameState (demo_3d.cpp 178-183)
    gameOver,       \* 3D: main's local flag (demo_3d.cpp 398)
    paddlePos,      \* 3D: main's local copy of the paddle position (360, 416)
    physicsSystem,  \* 3D: the Jolt physics system (bodies, ball, paddle)
    scored,         \* history: per target slot, times its instance was scored
    hitSum,         \* history: points of the targets destroyed since the reset
    clearings,      \* history: waves whose last live target was destroyed
    reactions,      \* history: times the all-cleared reaction ran
    staleSeen,      \* history: an event named a target already destroyed
    losses          \* history: balls lost since the reset

vars == <<variant, pc, game, world, gameState, gameOver, paddlePos,
          physicsSystem, scored, hitSum, clearings, reactions, staleSeen, losses>>

-----------------------------------------------------------------------------
(* Bounds of the model.                                                    *)

\* Targets per wave in the 3D program (NUM_TARGETS is 5 in demo_3d.cpp:50).
NUM_TARGETS == 2
\* Rows and columns of bricks (5 and 10 in demo_2d.cpp:33-34).
BRICK_ROWS == 3
BRICK_COLS == 1
\* Generations of targets (3D) or worlds (2D) a run may create.
MaxGen == 3
\* Contact-begin events one physics step may report.
MaxEvents == 2
\* Frames' way the paddle may be moved from its start position.
MaxDrift == 0
\* The same for the 3D paddle in the runs that study paddle movement.
MoveDrift == 1

-----------------------------------------------------------------------------
(* Helpers.                                                                *)

Min(S) == CHOOSE x \in S : \A y \in S : x <= y

RECURSIVE SumOver(_, _)
\* The sum of f[i] over the indices i of S.
SumOver(f, S) ==
    IF S = {} THEN 0
    ELSE LET i == Min(S) IN f[i] + SumOver(f, S \ {i})

\* The sequences over S of length at most n.
SeqsUpTo(S, n) == UNION {[1..k -> S] : k \in 0..n}


-----------------------------------------------------------------------------
(* The 3D program: constants (demo_3d.cpp 41-50), in 1/60 m and mm/s.      *)

PADDLE_SPEED_3D == 8 * 60
PADDLE_WIDTH_3D == 2 * 60
PADDLE_DEPTH == (15 * 60) \div 10
ARENA_WIDTH == 20 * 60
ARENA_DEPTH == 30 * 60
BALL_SPEED == 15 * 1000
\* The paddle's way in one frame: PADDLE_SPEED * deltaTime, deltaTime = 1/60 s.
PaddleStep3D == PADDLE_SPEED_3D \div 60
\* The balls of a fresh game (GameState::ballsRemaining and the reset: 10 in
\* demo_3d.cpp:180 and 433).
INITIAL_BALLS == 2

\* raymath's Clamp.
Clamp(value, lo, hi) ==
    LET result == IF value < lo THEN lo ELSE value
    IN IF result > hi THEN hi ELSE result

\* The out-of-bounds test without the plane behind the paddle.
OutOfBounds3DNoNearPlane(p) ==
    \/ p[2] < -2 * 60
    \/ p[3] < -(ARENA_DEPTH \div 2) - 5 * 60
    \/ (IF p[1] < 0 THEN -p[1] ELSE p[1]) > ARENA_WIDTH \div 2 + 5 * 60

\* The frame's out-of-bounds test on the ball position (448-450).
OutOfBounds3D(p) ==
    \/ p[2] < -2 * 60
    \/ p[3] > ARENA_DEPTH \div 2 + 5 * 60
    \/ p[3] < -(ARENA_DEPTH \div 2) - 5 * 60
    \/ (IF p[1] < 0 THEN -p[1] ELSE p[1]) > ARENA_WIDTH \div 2 + 5 * 60

\* Where the ball is put relative to the paddle (424, 438, 454).
DockPos3D(pp) == <<pp[1], pp[2] + 60, pp[3] - 60>>

(* Jolt body ids: <<index, sequence number>>.  A destroyed body's index    *)
(* goes to the head of the free list; a created body takes the head of the *)
(* free list, or else a new index, with the index's next sequence number.  *)
(* The floor and the three walls take the indices 0..3 (326-353).          *)
PaddleIdx == 4
BallIdx == 5
FirstTargetIdx == 6
paddleId3D == <<PaddleIdx, 1>>
gBallId == <<BallIdx, 1>>

\* bodyInterface.CreateBody followed by AddBody.
CreateBody(ps) ==
    LET reuse == ps.free /= <<>>
        idx == IF reuse THEN Head(ps.free) ELSE ps.count
        id == <<idx, ps.seqNo[idx] + 1>>
    IN [id |-> id,
        ps |-> [ps EXCEPT !.free = IF reuse THEN Tail(@) ELSE @,
                          !.count = IF reuse THEN @ ELSE @ + 1,
                          !.seqNo[idx] = @ + 1,
                          !.added = @ \cup {id}]]

\* bodyInterface.RemoveBody followed by DestroyBody.
RemoveAndDestroyBody(ps, id) ==
    [ps EXCEPT !.added = @ \ {id}, !.free = <<id[1]>> \o @,
               !.destroyedTwice = @ \/ id \notin ps.added]

\* The tiers with the two upper tests in the other order.
TargetPointsLowFirst(y) == IF y >= 2 THEN 20 ELSE IF y >= 3 THEN 30 ELSE 10

\* The tier of a target by its height y, in metres (243-252).
TargetPoints(y) == IF y >= 3 THEN 30 ELSE IF y >= 2 THEN 20 ELSE 10

\* CreateTarget without AddBody.
CreateTargetNotAdded(ps, draw) ==
    LET made == CreateBody(ps)
    IN [ps |-> [made.ps EXCEPT !.added = ps.added],
        target |-> [bodyId |-> made.id, position |-> draw,
                    points |-> TargetPoints(draw[2]), active |-> TRUE]]

\* CreateTarget with its three random draws (x, y, z in whole metres).
CreateTarget(ps, draw) ==
    LET made == CreateBody(ps)
    IN [ps |-> made.ps,
        target |-> [bodyId |-> made.id, position |-> draw,
                    points |-> TargetPoints(draw[2]), active |-> TRUE]]

RECURSIVE RemoveOldTargetsSparesFirst(_, _)
\* The first loop sparing the body in the first target slot.
RemoveOldTargetsSparesFirst(ps, targets) ==
    IF targets = <<>> THEN ps
    ELSE LET t == Head(targets)
             ps1 == IF t.bodyId[1] /= FirstTargetIdx /\ t.bodyId \in ps.added
                    THEN RemoveAndDestroyBody(ps, t.bodyId) ELSE ps
         IN RemoveOldTargetsSparesFirst(ps1, Tail(targets))

RECURSIVE RemoveOldTargets(_, _)
\* ResetTargets' first loop: every target body still added is removed.
RemoveOldTargets(ps, targets) ==
    IF targets = <<>> THEN ps
    ELSE LET t == Head(targets)
             ps1 == IF t.bodyId \in ps.added
                    THEN RemoveAndDestroyBody(ps, t.bodyId) ELSE ps
         IN RemoveOldTargets(ps1, Tail(targets))

RECURSIVE CreateTargets(_, _, _)
\* ResetTargets' second loop: one CreateTarget per draw, pushed back.
CreateTargets(ps, targets, draws) ==
    IF draws = <<>> THEN [ps |-> ps, targets |-> targets]
    ELSE LET made == CreateTarget(ps, Head(draws))
         IN CreateTargets(made.ps, Append(targets, made.target), Tail(draws))

\* ResetTargets without targets.clear().
ResetTargetsNoClear(ps, targets, draws) ==
    CreateTargets(RemoveOldTargets(ps, targets), targets, draws)

\* ResetTargets: remove the old bodies, clear the vector, create NUM_TARGETS.
ResetTargets(ps, targets, draws) ==
    CreateTargets(RemoveOldTargets(ps, targets), <<>>, draws)

\* The random draws of one wave: x, y, z of each of the NUM_TARGETS targets
\* (GetRandomValue(-8, 8), (1, 4), (-15, -7); x and z are sampled at one value).
TargetDraws == [1..NUM_TARGETS -> {0} \X {1, 3} \X {-10}]

\* OnContactAdded without the test of Target::active.
OnContactAddedNoActiveTest(gs, id1, id2) ==
    LET M == {i \in 1..Len(gs.targets) :
                \/ id1 = gBallId /\ id2 = gs.targets[i].bodyId
                \/ id2 = gBallId /\ id1 = gs.targets[i].bodyId}
    IN IF M = {} THEN [gs |-> gs, hit |-> 0]
       ELSE LET i == Min(M)
            IN [gs |-> [gs EXCEPT !.score = @ + gs.targets[i].points,
                                  !.targets[i].active = FALSE],
                hit |-> i]

\* OnContactAdded without the test of gBallId: the pair has to name the
\* target only.
OnContactAddedNoBallTest(gs, id1, id2) ==
    LET M == {i \in 1..Len(gs.targets) :
                /\ gs.targets[i].active
                /\ gs.targets[i].bodyId \in {id1, id2}}
    IN IF M = {} THEN [gs |-> gs, hit |-> 0]
       ELSE LET i == Min(M)
            IN [gs |-> [gs EXCEPT !.score = @ + gs.targets[i].points,
                                  !.targets[i].active = FALSE],
                hit |-> i]

\* OnContactAdded for the bodies id1, id2 on the game state gs: the first
\* active target that the pair names with the ball is scored and deactivated.
\* hit is the index of that target, 0 if there is none.
OnContactAdded(gs, id1, id2) ==
    LET M == {i \in 1..Len(gs.targets) :
                /\ gs.targets[i].active
                /\ \/ id1 = gBallId /\ id2 = gs.targets[i].bodyId
                   \/ id2 = gBallId /\ id1 = gs.targets[i].bodyId}
    IN IF M = {} THEN [gs |-> gs, hit |-> 0]
       ELSE LET i == Min(M)
            IN [gs |-> [gs EXCEPT !.score = @ + gs.targets[i].points,
                                  !.targets[i].active = FALSE],
                hit |-> i]

RECURSIVE Callbacks(_, _, _)
\* The callbacks of one physicsSystem.Update in the order of evs; hits is the
\* sequence of the targets scored.
Callbacks(gs, hits, evs) ==
    IF evs = <<>> THEN [gs |-> gs, hits |-> hits]
    ELSE LET r == OnContactAdded(gs, Head(evs)[1], Head(evs)[2])
         IN Callbacks(r.gs, IF r.hit = 0 THEN hits ELSE Append(hits, r.hit),
                      Tail(evs))

\* The pair id1, id2 names the ball and a target that is no longer active.
StaleEvent3D(gs, id1, id2) ==
    \E i \in 1..Len(gs.targets) :
        /\ ~gs.targets[i].active
        /\ \/ id1 = gBallId /\ id2 = gs.targets[i].bodyId
           \/ id2 = gBallId /\ id1 = gs.targets[i].bodyId

RECURSIVE StaleIn3D(_, _)
\* Some event of evs is stale when its callback runs.
StaleIn3D(gs, evs) ==
    IF evs = <<>> THEN FALSE
    ELSE \/ StaleEvent3D(gs, Head(evs)[1], Head(evs)[2])
         \/ StaleIn3D(OnContactAdded(gs, Head(evs)[1], Head(evs)[2]).gs, Tail(evs))

(* The callbacks run on the job system's worker threads (299) and write    *)
(* gGameState->score without synchronisation.  Callbacks of one body pair  *)
(* run in order on one thread; those of different pairs may overlap, and   *)
(* of overlapping `score += points' any non-empty part may be the part     *)
(* that lands.                                                             *)
RaceScores(score, targets, hits) ==
    IF hits = <<>> THEN {score}
    ELSE {score + SumOver([k \in 1..Len(hits) |-> targets[hits[k]].points], S) :
            S \in (SUBSET (1..Len(hits))) \ {{}}}

AllHit(targets) == \A i \in 1..Len(targets) : ~targets[i].active

\* The generation of the targets: the sequence number of the first target slot.
Gen3D == physicsSystem.seqNo[FirstTargetIdx]

\* The floor, the first body created (326-333); the walls are of its layer.
floorId3D == <<0, 1>>

\* The bodies a contact may name.
ContactIds3D == {floorId3D, paddleId3D, gBallId} \cup
                {gameState.targets[i].bodyId : i \in 1..Len(gameState.targets)}

\* The pairs a contact may name.  ObjectLayerPairFilterImpl::ShouldCollide
\* (101-117) admits a pair only when one side is of the layer MOVING, the
\* ball's: the ball with a target, with the paddle, with the floor or a wall.
ContactPairs3D ==
    LET T == ContactIds3D \ {floorId3D, paddleId3D, gBallId}
    IN {<<gBallId, t>> : t \in T} \cup {<<t, gBallId>> : t \in T}
       \cup {<<gBallId, paddleId3D>>, <<paddleId3D, gBallId>>,
             <<floorId3D, gBallId>>}

\* The contact lists one Update may deliver.
EventLists3D ==
    IF Gen3D < MaxGen THEN SeqsUpTo(ContactPairs3D, MaxEvents) ELSE {<<>>}

\* Where and how fast the physics may leave the ball: inside the arena or
\* below the floor's plane.
PhysBall3D == {[pos |-> <<0, 2 * 60, 0>>, vel |-> <<0, 3000, -BALL_SPEED>>],
               [pos |-> <<0, -3 * 60, 0>>, vel |-> <<0, 3000, -BALL_SPEED>>]}

\* Where a step may leave a ball that was at rest: where it is, or pulled
\* down by gravity.
RestBall3D ==
    {[pos |-> physicsSystem.ballPos, vel |-> <<0, 0, 0>>],
     [pos |-> <<physicsSystem.ballPos[1], physicsSystem.ballPos[2] - 1,
                physicsSystem.ballPos[3]>>,
      vel |-> <<0, -163, 0>>]}

\* The outcomes of one step for the ball as it is.
StepBall3D ==
    IF physicsSystem.ballVel = <<0, 0, 0>> THEN RestBall3D ELSE PhysBall3D

\* The paddle start position (360).
PaddleStart3D == <<0, 1 * 60, ARENA_DEPTH \div 2 - 3 * 60>>

NoGame2D == [unused |-> TRUE]
NoGame3D == [unused |-> TRUE]

\* The state when the 3D frame loop is entered (285-398).
Init3D ==
    LET ps0 == [added |-> {<<i, 1>> : i \in 0..BallIdx},
                seqNo |-> [i \in 0..(FirstTargetIdx + NUM_TARGETS) |->
                              IF i <= BallIdx THEN 1 ELSE 0],
                free |-> <<>>,
                count |-> FirstTargetIdx,
                paddle |-> PaddleStart3D,
                ballPos |-> DockPos3D(PaddleStart3D),
                ballVel |-> <<0, 0, 0>>,
                destroyedTwice |-> FALSE]
    IN /\ variant = "3D"
       /\ pc = "paddle"
       /\ game = NoGame2D
       /\ world = NoGame2D
       /\ \E draws \in TargetDraws :
            LET r == ResetTargets(ps0, <<>>, draws)
            IN /\ physicsSystem = r.ps
               /\ gameState = [score |-> 0, ballsRemaining |-> INITIAL_BALLS,
                               ballInPlay |-> FALSE, targets |-> r.targets]
       /\ gameOver = FALSE
       /\ paddlePos = PaddleStart3D
       /\ scored = [i \in 1..NUM_TARGETS |-> 0]
       /\ hitSum = 0
       /\ clearings = 0
       /\ reactions = 0
       /\ staleSeen = FALSE
       /\ losses = 0

\* The movement keys the player may hold: the four IsKeyDown answers, held
\* only while the paddle stays within MaxDrift frames' way of its start.
Dist(a, b) == IF a < b THEN b - a ELSE a - b

NearStart3D(p) ==
    /\ Dist(p[1], PaddleStart3D[1]) <= MaxDrift * PaddleStep3D
    /\ Dist(p[3], PaddleStart3D[3]) <= MaxDrift * PaddleStep3D

MoveKeys3D == [left : BOOLEAN, right : BOOLEAN, up : BOOLEAN, down : BOOLEAN]

\* Paddle movement (402-416).
Paddle3DKeys(k) ==
    LET moveX == (IF k.right THEN PaddleStep3D ELSE 0)
                 - (IF k.left THEN PaddleStep3D ELSE 0)
        moveZ == (IF k.down THEN PaddleStep3D ELSE 0)
                 - (IF k.up THEN PaddleStep3D ELSE 0)
        cur == physicsSystem.paddle
        newX == Clamp(cur[1] + moveX, -(ARENA_WIDTH \div 2) + PADDLE_WIDTH_3D,
                      ARENA_WIDTH \div 2 - PADDLE_WIDTH_3D)
        newZ == Clamp(cur[3] + moveZ, 0, ARENA_DEPTH \div 2 - 2 * 60)
    IN /\ variant = "3D" /\ pc = "paddle"
       /\ physicsSystem' = [physicsSystem EXCEPT !.paddle = <<newX, cur[2], newZ>>]
       /\ paddlePos' = <<newX, cur[2], newZ>>
       /\ pc' = "launch"
       /\ UNCHANGED <<variant, game, world, gameState, gameOver, scored, hitSum,
                      clearings, reactions, staleSeen, losses>>

\* The launch without the test of ballsRemaining.
Launch3DKeyNoBallsTest(space) ==
    /\ variant = "3D" /\ pc = "launch"
    /\ IF space /\ ~gameState.ballInPlay
       THEN /\ gameState' = [gameState EXCEPT !.ballInPlay = TRUE,
                                              !.ballsRemaining = @ - 1]
            /\ physicsSystem' = [physicsSystem EXCEPT
                                    !.ballPos = DockPos3D(paddlePos),
                                    !.ballVel = <<0, 3000, -BALL_SPEED>>]
       ELSE UNCHANGED <<gameState, physicsSystem>>
    /\ pc' = "reset"
    /\ UNCHANGED <<variant, game, world, gameOver, paddlePos, scored, hitSum,
                   clearings, reactions, staleSeen, losses>>

\* The launch without the test of ballInPlay.
Launch3DKeyNoInPlayTest(space) ==
    /\ variant = "3D" /\ pc = "launch"
    /\ IF space /\ gameState.ballsRemaining > 0
       THEN /\ gameState' = [gameState EXCEPT !.ballInPlay = TRUE,
                                              !.ballsRemaining = @ - 1]
            /\ physicsSystem' = [physicsSystem EXCEPT
                                    !.ballPos = DockPos3D(paddlePos),
                                    !.ballVel = <<0, 3000, -BALL_SPEED>>]
       ELSE UNCHANGED <<gameState, physicsSystem>>
    /\ pc' = "reset"
    /\ UNCHANGED <<variant, game, world, gameOver, paddlePos, scored, hitSum,
                   clearings, reactions, staleSeen, losses>>

\* Launch (418-428); space is IsKeyPressed(KEY_SPACE).
Launch3DKey(space) ==
    /\ variant = "3D" /\ pc = "launch"
    /\ IF space /\ ~gameState.ballInPlay /\ gameState.ballsRemaining > 0
       THEN /\ gameState' = [gameState EXCEPT !.ballInPlay = TRUE,
                                              !.ballsRemaining = @ - 1]
            /\ physicsSystem' = [physicsSystem EXCEPT
                                    !.ballPos = DockPos3D(paddlePos),
                                    !.ballVel = <<0, 3000, -BALL_SPEED>>]
       ELSE UNCHANGED <<gameState, physicsSystem>>
    /\ pc' = "reset"
    /\ UNCHANGED <<variant, game, world, gameOver, paddlePos, scored, hitSum,
                   clearings, reactions, staleSeen, losses>>

\* The reset without `gameState.score = 0'.
Reset3DKeyKeepsScore(r, draws) ==
    /\ variant = "3D" /\ pc = "reset"
    /\ IF r
       THEN LET ps1 == [physicsSystem EXCEPT !.ballPos = DockPos3D(paddlePos),
                                             !.ballVel = <<0, 0, 0>>]
                res == ResetTargets(ps1, gameState.targets, draws)
            IN /\ gameState' = [score |-> gameState.score,
                                ballsRemaining |-> INITIAL_BALLS,
                                ballInPlay |-> FALSE, targets |-> res.targets]
               /\ gameOver' = FALSE
               /\ physicsSystem' = res.ps
               /\ scored' = [i \in 1..NUM_TARGETS |-> 0]
               /\ hitSum' = 0
               /\ clearings' = 0
               /\ reactions' = 0
               /\ staleSeen' = FALSE
               /\ losses' = 0
       ELSE UNCHANGED <<gameState, gameOver, physicsSystem, scored, hitSum,
                        clearings, reactions, staleSeen, losses>>
    /\ pc' = "bounds"
    /\ UNCHANGED <<variant, game, world, paddlePos>>

\* The reset moving the ball to the paddle without stopping it.
Reset3DKeyKeepsBallVel(r, draws) ==
    /\ variant = "3D" /\ pc = "reset"
    /\ IF r
       THEN LET ps1 == [physicsSystem EXCEPT !.ballPos = DockPos3D(paddlePos)]
                res == ResetTargets(ps1, gameState.targets, draws)
            IN /\ gameState' = [score |-> 0, ballsRemaining |-> INITIAL_BALLS,
                                ballInPlay |-> FALSE, targets |-> res.targets]
               /\ gameOver' = FALSE
               /\ physicsSystem' = res.ps
               /\ scored' = [i \in 1..NUM_TARGETS |-> 0]
               /\ hitSum' = 0
               /\ clearings' = 0
               /\ reactions' = 0
               /\ staleSeen' = FALSE
               /\ losses' = 0
       ELSE UNCHANGED <<gameState, gameOver, physicsSystem, scored, hitSum,
                        clearings, reactions, staleSeen, losses>>
    /\ pc' = "bounds"
    /\ UNCHANGED <<variant, game, world, paddlePos>>

\* The reset block without `gameOver = false'.
Reset3DKeyKeepsGameOver(r, draws) ==
    /\ variant = "3D" /\ pc = "reset"
    /\ IF r
       THEN LET ps1 == [physicsSystem EXCEPT !.ballPos = DockPos3D(paddlePos),
                                             !.ballVel = <<0, 0, 0>>]
                res == ResetTargets(ps1, gameState.targets, draws)
            IN /\ gameState' = [score |-> 0, ballsRemaining |-> INITIAL_BALLS,
                                ballInPlay |-> FALSE, targets |-> res.targets]
               /\ gameOver' = gameOver
               /\ physicsSystem' = res.ps
               /\ scored' = [i \in 1..NUM_TARGETS |-> 0]
               /\ hitSum' = 0
               /\ clearings' = 0
               /\ reactions' = 0
               /\ staleSeen' = FALSE
               /\ losses' = 0
       ELSE UNCHANGED <<gameState, gameOver, physicsSystem, scored, hitSum,
                        clearings, reactions, staleSeen, losses>>
    /\ pc' = "bounds"
    /\ UNCHANGED <<variant, game, world, paddlePos>>

\* Reset (430-443); r is IsKeyPressed(KEY_R), draws the new wave's draws.
Reset3DKey(r, draws) ==
    /\ variant = "3D" /\ pc = "reset"
    /\ IF r
       THEN LET ps1 == [physicsSystem EXCEPT !.ballPos = DockPos3D(paddlePos),
                                             !.ballVel = <<0, 0, 0>>]
                res == ResetTargets(ps1, gameState.targets, draws)
            IN /\ gameState' = [score |-> 0, ballsRemaining |-> INITIAL_BALLS,
                                ballInPlay |-> FALSE, targets |-> res.targets]
               /\ gameOver' = FALSE
               /\ physicsSystem' = res.ps
               /\ scored' = [i \in 1..NUM_TARGETS |-> 0]
               /\ hitSum' = 0
               /\ clearings' = 0
               /\ reactions' = 0
               /\ staleSeen' = FALSE
               /\ losses' = 0
       ELSE UNCHANGED <<gameState, gameOver, physicsSystem, scored, hitSum,
                        clearings, reactions, staleSeen, losses>>
    /\ pc' = "bounds"
    /\ UNCHANGED <<variant, game, world, paddlePos>>

\* The out-of-bounds check ending the game with a ball still left.
Bounds3DEndsEarly ==
    /\ variant = "3D" /\ pc = "bounds"
    /\ IF gameState.ballInPlay /\ OutOfBounds3D(physicsSystem.ballPos)
       THEN /\ gameState' = [gameState EXCEPT !.ballInPlay = FALSE]
            /\ physicsSystem' = [physicsSystem EXCEPT
                                    !.ballPos = DockPos3D(paddlePos),
                                    !.ballVel = <<0, 0, 0>>]
            /\ gameOver' = IF gameState.ballsRemaining <= 1 THEN TRUE ELSE gameOver
            /\ losses' = losses + 1
       ELSE UNCHANGED <<gameState, physicsSystem, gameOver, losses>>
    /\ pc' = "allhit"
    /\ UNCHANGED <<variant, game, world, paddlePos, scored, hitSum, clearings,
                   reactions, staleSeen>>

\* The out-of-bounds check (445-461).
Bounds3D ==
    /\ variant = "3D" /\ pc = "bounds"
    /\ IF gameState.ballInPlay /\ OutOfBounds3D(physicsSystem.ballPos)
       THEN /\ gameState' = [gameState EXCEPT !.ballInPlay = FALSE]
            /\ physicsSystem' = [physicsSystem EXCEPT
                                    !.ballPos = DockPos3D(paddlePos),
                                    !.ballVel = <<0, 0, 0>>]
            /\ gameOver' = IF gameState.ballsRemaining <= 0 THEN TRUE ELSE gameOver
            /\ losses' = losses + 1
       ELSE UNCHANGED <<gameState, physicsSystem, gameOver, losses>>
    /\ pc' = "allhit"
    /\ UNCHANGED <<variant, game, world, paddlePos, scored, hitSum, clearings,
                   reactions, staleSeen>>

\* The all-targets-hit check and respawn (463-473).
AllHit3DDraws(draws) ==
    /\ variant = "3D" /\ pc = "allhit"
    /\ IF AllHit(gameState.targets) /\ gameState.targets /= <<>>
       THEN LET res == ResetTargets(physicsSystem, gameState.targets, draws)
            IN /\ gameState' = [gameState EXCEPT !.targets = res.targets]
               /\ physicsSystem' = res.ps
               /\ scored' = [i \in 1..NUM_TARGETS |-> 0]
               /\ reactions' = reactions + 1
               /\ staleSeen' = FALSE
       ELSE UNCHANGED <<gameState, physicsSystem, scored, reactions, staleSeen>>
    /\ pc' = "update"
    /\ UNCHANGED <<variant, game, world, gameOver, paddlePos, hitSum, clearings,
                   losses>>

\* physicsSystem.Update (475-477) delivering the contacts evs, leaving the
\* ball at bp with velocity bv; landed is the part of the overlapping score
\* updates that lands.
Update3DWith(evs, ball, landed) ==
    LET r == Callbacks(gameState, <<>>, evs)
        pts == [k \in 1..Len(r.hits) |-> gameState.targets[r.hits[k]].points]
    IN /\ variant = "3D" /\ pc = "update"
       /\ landed \in RaceScores(gameState.score, gameState.targets, r.hits)
       /\ gameState' = [r.gs EXCEPT !.score = landed]
       /\ physicsSystem' = [physicsSystem EXCEPT !.ballPos = ball.pos,
                                                 !.ballVel = ball.vel]
       /\ scored' = [i \in 1..NUM_TARGETS |->
                       scored[i] + Cardinality({k \in 1..Len(r.hits) : r.hits[k] = i})]
       /\ hitSum' = hitSum + SumOver(pts, 1..Len(r.hits))
       /\ clearings' = IF ~AllHit(gameState.targets) /\ AllHit(r.gs.targets)
                       THEN clearings + 1 ELSE clearings
       /\ staleSeen' = (staleSeen \/ StaleIn3D(gameState, evs))
       /\ pc' = "paddle"
       /\ UNCHANGED <<variant, game, world, gameOver, paddlePos, reactions,
                      losses>>

Paddle3D ==
    /\ variant = "3D"
    /\ \E k \in MoveKeys3D : Paddle3DKeys(k) /\ NearStart3D(paddlePos')

Launch3D ==
    /\ variant = "3D"
    /\ \E space \in BOOLEAN : Launch3DKey(space)

Reset3D ==
    /\ variant = "3D"
    /\ \E r \in BOOLEAN, draws \in TargetDraws :
          (r => Gen3D < MaxGen) /\ Reset3DKey(r, draws)

AllHit3D ==
    /\ variant = "3D"
    /\ \E draws \in TargetDraws : AllHit3DDraws(draws)

Update3D ==
    /\ variant = "3D"
    /\ \E evs \in EventLists3D, ball \in StepBall3D :
          \E landed \in RaceScores(gameState.score, gameState.targets,
                                   Callbacks(gameState, <<>>, evs).hits) :
              Update3DWith(evs, ball, landed)

-----------------------------------------------------------------------------
(* The 2D program: constants (demo_2d.cpp 10-36), in 1/60 m and mm/s.      *)

WORLD_WIDTH == (800 * 60) \div 30
PADDLE_WIDTH_2D == 3 * 60
PADDLE_HEIGHT_2D == (4 * 60) \div 10
PADDLE_Y == (15 * 60) \div 10
PADDLE_SPEED_2D == 15 * 60
BALL_RADIUS_2D == (3 * 60) \div 10
BALL_INITIAL_SPEED == 10 * 1000
\* The lives of a fresh game (initGame).
INITIAL_LIVES == 3

\* Box2D ids: the index of the body (shape) in its world, counted from 1 in
\* the order of creation; a new world counts from 1 again.
PaddleBody2D == 5
BallBody2D == 6
FirstBrickId == 7
paddleShape == 5
ballShape == 6
\* The top wall, the third body of createWalls (115-122).
topWallShape == 3

GetBrickColor(row) ==
    CASE row = 0 -> "RED" [] row = 1 -> "ORANGE" [] row = 2 -> "YELLOW"
      [] row = 3 -> "GREEN" [] row = 4 -> "BLUE" [] OTHER -> "PURPLE"

\* The ball's place on top of the paddle (217, 232, 346).
DockPos2D(paddleX) ==
    <<paddleX, PADDLE_Y + PADDLE_HEIGHT_2D \div 2 + BALL_RADIUS_2D + 6>>

\* createBricks with every brick worth one hit point more.
CreateBricksWorthMore(firstId) ==
    [n \in 1..(BRICK_ROWS * BRICK_COLS) |->
        LET row == (n - 1) \div BRICK_COLS
        IN [bodyId |-> firstId + n - 1, shapeId |-> firstId + n - 1,
            color |-> GetBrickColor(row), destroyed |-> FALSE,
            hitPoints |-> BRICK_ROWS - row + 1]]

\* createBricks: row by row, one body and one shape per brick.
CreateBricks(firstId) ==
    [n \in 1..(BRICK_ROWS * BRICK_COLS) |->
        LET row == (n - 1) \div BRICK_COLS
        IN [bodyId |-> firstId + n - 1, shapeId |-> firstId + n - 1,
            color |-> GetBrickColor(row), destroyed |-> FALSE,
            hitPoints |-> BRICK_ROWS - row]]

\* createWorld ... createBall of initGame in the world slot's generation gen:
\* four walls, the paddle, the ball; then the bricks' bodies.
NewWorld(gen) ==
    [generation |-> gen,
     bodies |-> 1..(FirstBrickId + BRICK_ROWS * BRICK_COLS - 1),
     paddleX |-> WORLD_WIDTH \div 2,
     paddleVel |-> 0,
     ballPos |-> DockPos2D(WORLD_WIDTH \div 2),
     ballVel |-> <<0, 0>>,
     destroyedTwice |-> FALSE]

\* initGame.
InitGame(gen) ==
    [worldId |-> <<1, gen>>, paddleId |-> PaddleBody2D, ballId |-> BallBody2D,
     bricks |-> CreateBricks(FirstBrickId),
     score |-> 0, lives |-> INITIAL_LIVES,
     gameOver |-> FALSE, gameWon |-> FALSE, ballLaunched |-> FALSE]

\* The pass destroying the ball's body in place of the brick's.
BrickEventDestroysBall(st, a, b) ==
    LET M == {i \in 1..Len(st.game.bricks) :
                /\ ~st.game.bricks[i].destroyed
                /\ (a = st.game.bricks[i].shapeId \/ b = st.game.bricks[i].shapeId)}
    IN IF M = {} THEN st
       ELSE LET i == Min(M)
                brick == st.game.bricks[i]
            IN [game |-> [st.game EXCEPT !.bricks[i].destroyed = TRUE,
                                         !.score = @ + brick.hitPoints * 10],
                world |-> [st.world EXCEPT !.bodies = @ \ {st.game.ballId}],
                hits |-> Append(st.hits, i)]

\* The pass taking the brick's points off the score.
BrickEventTakesPoints(st, a, b) ==
    LET M == {i \in 1..Len(st.game.bricks) :
                /\ ~st.game.bricks[i].destroyed
                /\ (a = st.game.bricks[i].shapeId \/ b = st.game.bricks[i].shapeId)}
    IN IF M = {} THEN st
       ELSE LET i == Min(M)
                brick == st.game.bricks[i]
            IN [game |-> [st.game EXCEPT !.bricks[i].destroyed = TRUE,
                                         !.score = @ - brick.hitPoints * 10],
                world |-> [st.world EXCEPT
                             !.bodies = @ \ {brick.bodyId},
                             !.destroyedTwice = @ \/ brick.bodyId \notin st.world.bodies],
                hits |-> Append(st.hits, i)]

\* The pass without the test of Brick::destroyed.
BrickEventNoDestroyedTest(st, a, b) ==
    LET M == {i \in 1..Len(st.game.bricks) :
                /\ (a = st.game.bricks[i].shapeId \/ b = st.game.bricks[i].shapeId)}
    IN IF M = {} THEN st
       ELSE LET i == Min(M)
                brick == st.game.bricks[i]
            IN [game |-> [st.game EXCEPT !.bricks[i].destroyed = TRUE,
                                         !.score = @ + brick.hitPoints * 10],
                world |-> [st.world EXCEPT
                             !.bodies = @ \ {brick.bodyId},
                             !.destroyedTwice = @ \/ brick.bodyId \notin st.world.bodies],
                hits |-> Append(st.hits, i)]

\* The pass without `brick.destroyed = true'.
BrickEventKeepsLive(st, a, b) ==
    LET M == {i \in 1..Len(st.game.bricks) :
                /\ ~st.game.bricks[i].destroyed
                /\ (a = st.game.bricks[i].shapeId \/ b = st.game.bricks[i].shapeId)}
    IN IF M = {} THEN st
       ELSE LET i == Min(M)
                brick == st.game.bricks[i]
            IN [game |-> [st.game EXCEPT
                                         !.score = @ + brick.hitPoints * 10],
                world |-> [st.world EXCEPT
                             !.bodies = @ \ {brick.bodyId},
                             !.destroyedTwice = @ \/ brick.bodyId \notin st.world.bodies],
                hits |-> Append(st.hits, i)]

\* One pass of checkBrickCollisions' outer loop: the event with shapes a, b.
\* st holds the game, the world and hits, the bricks destroyed so far.
BrickEvent(st, a, b) ==
    LET M == {i \in 1..Len(st.game.bricks) :
                /\ ~st.game.bricks[i].destroyed
                /\ (a = st.game.bricks[i].shapeId \/ b = st.game.bricks[i].shapeId)}
    IN IF M = {} THEN st
       ELSE LET i == Min(M)
                brick == st.game.bricks[i]
            IN [game |-> [st.game EXCEPT !.bricks[i].destroyed = TRUE,
                                         !.score = @ + brick.hitPoints * 10],
                world |-> [st.world EXCEPT
                             !.bodies = @ \ {brick.bodyId},
                             !.destroyedTwice = @ \/ brick.bodyId \notin st.world.bodies],
                hits |-> Append(st.hits, i)]

RECURSIVE CheckBrickCollisions(_, _)
\* checkBrickCollisions on the begin events evs of the last step.
CheckBrickCollisions(st, evs) ==
    IF evs = <<>> THEN st
    ELSE CheckBrickCollisions(BrickEvent(st, Head(evs)[1], Head(evs)[2]), Tail(evs))

\* The shapes a, b name the ball and a brick that is already destroyed.
StaleEvent2D(g, a, b) ==
    \E i \in 1..Len(g.bricks) :
        /\ g.bricks[i].destroyed
        /\ \/ a = ballShape /\ b = g.bricks[i].shapeId
           \/ b = ballShape /\ a = g.bricks[i].shapeId

RECURSIVE StaleIn2D(_, _)
\* Some event of evs is stale when checkBrickCollisions' loop reaches it.
StaleIn2D(g, evs) ==
    IF evs = <<>> THEN FALSE
    ELSE \/ StaleEvent2D(g, Head(evs)[1], Head(evs)[2])
         \/ StaleIn2D(BrickEvent([game |-> g, world |-> [bodies |-> {},
                                            destroyedTwice |-> FALSE],
                                  hits |-> <<>>],
                                 Head(evs)[1], Head(evs)[2]).game, Tail(evs))

CheckBallLost(w) == w.ballPos[2] < 0

\* checkWin returning true at the first destroyed brick.
CheckWinAnyDestroyed(g) == \E i \in 1..Len(g.bricks) : g.bricks[i].destroyed

CheckWin(g) == \A i \in 1..Len(g.bricks) : g.bricks[i].destroyed

RECURSIVE ISqrtBits(_, _, _)
\* The largest r with r * r <= n, found bit by bit from b downwards.
ISqrtBits(n, r, b) ==
    IF b = 0 THEN r
    ELSE LET c == r + b
         IN ISqrtBits(n, IF c <= 46340 /\ c * c <= n THEN c ELSE r, b \div 2)

\* The fixed-point scale k at which the speed with square n (mm/s squared)
\* is kept: 1/k mm/s, the finest of 1, 1/10 and 1/100 mm/s that fits.
SpeedScale(n) == IF n <= 200000 THEN 100 ELSE IF n <= 20000000 THEN 10 ELSE 1

\* sqrtf of n, in 1/k mm/s, to the unit below.
Sqrt(n, k) == ISqrtBits(n * k * k, 0, 32768)

Abs(x) == IF x < 0 THEN -x ELSE x

\* v * (BALL_INITIAL_SPEED / speed) for a speed in 1/k mm/s, rounded
\* towards zero.
Rescale(v, speed, k) ==
    (IF v < 0 THEN -1 ELSE 1) * ((Abs(v) * BALL_INITIAL_SPEED * k) \div speed)

\* The second half of maintainBallSpeed, without the rescaling that follows
\* the clamp of the y component.
MaintainBallSpeedNoRenorm(vel) ==
    LET n == vel[1] * vel[1] + vel[2] * vel[2]
        k == SpeedScale(n)
        speed == Sqrt(n, k)
        v1 == IF n > 100 * 100 /\ n /= BALL_INITIAL_SPEED * BALL_INITIAL_SPEED
              THEN <<Rescale(vel[1], speed, k), Rescale(vel[2], speed, k)>>
              ELSE vel
    IN IF Abs(v1[2]) < 2000
       THEN <<v1[1], (IF vel[2] >= 0 THEN 1 ELSE -1) * 2000>>
       ELSE v1

\* maintainBallSpeed on the ball velocity vel of a launched ball (291-307).
\* The tests of the speed against 0.1 and BALL_INITIAL_SPEED are made on its
\* square; the sign of the y component is the one vel has, which a positive
\* scale keeps.
MaintainBallSpeed(vel) ==
    LET n == vel[1] * vel[1] + vel[2] * vel[2]
        k == SpeedScale(n)
        speed == Sqrt(n, k)
        v1 == IF n > 100 * 100 /\ n /= BALL_INITIAL_SPEED * BALL_INITIAL_SPEED
              THEN <<Rescale(vel[1], speed, k), Rescale(vel[2], speed, k)>>
              ELSE vel
    IN IF Abs(v1[2]) < 2000
       THEN LET sign == IF vel[2] >= 0 THEN 1 ELSE -1
                vy == sign * 2000
                n2 == v1[1] * v1[1] + vy * vy
                k2 == SpeedScale(n2)
                speed2 == Sqrt(n2, k2)
            IN <<Rescale(v1[1], speed2, k2), Rescale(vy, speed2, k2)>>
       ELSE v1

\* sin and cos of the launch angle, in 1/1000, for the angles sampled of
\* GetRandomValue(-30, 30).
LaunchAngles == {-30, 0, 30}
SinCos(angle) ==
    CASE angle = -30 -> <<-500, 866>> [] angle = 0 -> <<0, 1000>>
      [] angle = 30 -> <<500, 866>>

\* The generation count of the 2D run: worlds created so far.
Gen2D == world.generation + 1

\* The shapes a contact may name, and the pairs.  The ball is the one
\* dynamic body; walls and bricks are static and the paddle is kinematic, so
\* every begin event has the ball on one side: the ball with a brick, with
\* the paddle, with a wall.
BrickShapes == {game.bricks[i].shapeId : i \in 1..Len(game.bricks)}

ContactPairs2D ==
    {<<ballShape, t>> : t \in BrickShapes} \cup {<<t, ballShape>> : t \in BrickShapes}
    \cup {<<ballShape, paddleShape>>, <<paddleShape, ballShape>>,
          <<topWallShape, ballShape>>}

\* The begin events one step may deliver.  Before the launch the ball is
\* kept on the paddle (342-348), out of the bricks' reach.
EventLists2D ==
    SeqsUpTo(IF game.ballLaunched THEN ContactPairs2D
             ELSE {p \in ContactPairs2D : p[1] \notin BrickShapes /\ p[2] \notin BrickShapes},
             MaxEvents)

\* Where and how fast a step may leave a moving ball: inside at the target
\* speed, inside and slowed, below the bottom edge.
PhysBall2D == {[pos |-> <<800, 300>>, vel |-> <<6000, 8000>>],
               [pos |-> <<800, 300>>, vel |-> <<3000, -4000>>],
               [pos |-> <<800, -6>>, vel |-> <<0, -10000>>]}

\* The frame times GetFrameTime may give, in 1/60 s.
FrameTimes == {1}

\* The state when the 2D frame loop is entered (476-483).
Init2D ==
    /\ variant = "2D"
    /\ pc = "begin"
    /\ game = InitGame(0)
    /\ world = NewWorld(0)
    /\ gameState = NoGame3D
    /\ gameOver = FALSE
    /\ paddlePos = <<0, 0, 0>>
    /\ physicsSystem = NoGame3D
    /\ scored = [i \in 1..(BRICK_ROWS * BRICK_COLS) |-> 0]
    /\ hitSum = 0
    /\ clearings = 0
    /\ reactions = 0
    /\ staleSeen = FALSE
    /\ losses = 0

\* The frame's start testing gameOver alone.
Begin2DKeyWonPlaysOn(r) ==
    /\ variant = "2D" /\ pc = "begin"
    /\ IF game.gameOver
       THEN /\ IF r
               THEN /\ game' = InitGame(world.generation + 1)
                    /\ world' = NewWorld(world.generation + 1)
                    /\ scored' = [i \in 1..(BRICK_ROWS * BRICK_COLS) |-> 0]
                    /\ hitSum' = 0
                    /\ clearings' = 0
                    /\ reactions' = 0
                    /\ staleSeen' = FALSE
                    /\ losses' = 0
               ELSE UNCHANGED <<game, world, scored, hitSum, clearings, reactions, staleSeen, losses>>
            /\ pc' = "begin"
       ELSE /\ pc' = "paddle"
            /\ UNCHANGED <<game, world, scored, hitSum, clearings, reactions, staleSeen, losses>>
    /\ UNCHANGED <<variant, gameState, gameOver, paddlePos, physicsSystem>>

\* The top of updateGame (312-320); r is IsKeyPressed(KEY_R).
Begin2DKey(r) ==
    /\ variant = "2D" /\ pc = "begin"
    /\ IF game.gameOver \/ game.gameWon
       THEN /\ IF r
               THEN /\ game' = InitGame(world.generation + 1)
                    /\ world' = NewWorld(world.generation + 1)
                    /\ scored' = [i \in 1..(BRICK_ROWS * BRICK_COLS) |-> 0]
                    /\ hitSum' = 0
                    /\ clearings' = 0
                    /\ reactions' = 0
                    /\ staleSeen' = FALSE
                    /\ losses' = 0
               ELSE UNCHANGED <<game, world, scored, hitSum, clearings, reactions, staleSeen, losses>>
            /\ pc' = "begin"
       ELSE /\ pc' = "paddle"
            /\ UNCHANGED <<game, world, scored, hitSum, clearings, reactions, staleSeen, losses>>
    /\ UNCHANGED <<variant, gameState, gameOver, paddlePos, physicsSystem>>

\* Paddle movement (322-340); left and right are the IsKeyDown answers.
Paddle2DKeys(left, right) ==
    LET v0 == IF right THEN PADDLE_SPEED_2D
              ELSE IF left THEN -PADDLE_SPEED_2D ELSE 0
        minX == PADDLE_WIDTH_2D \div 2
        maxX == WORLD_WIDTH - PADDLE_WIDTH_2D \div 2
        v1 == IF world.paddleX <= minX /\ v0 < 0 THEN 0 ELSE v0
        v2 == IF world.paddleX >= maxX /\ v1 > 0 THEN 0 ELSE v1
    IN /\ variant = "2D" /\ pc = "paddle"
       /\ world' = [world EXCEPT !.paddleVel = v2]
       /\ pc' = "follow"
       /\ UNCHANGED <<variant, game, gameState, gameOver, paddlePos,
                      physicsSystem, scored, hitSum, clearings, reactions, staleSeen, losses>>

\* launchBall taking a life.
LaunchBallTakesLife(g, w, angle) ==
    IF ~g.ballLaunched
    THEN [game |-> [g EXCEPT !.ballLaunched = TRUE, !.lives = @ - 1],
          world |-> [w EXCEPT !.ballVel =
                        <<(BALL_INITIAL_SPEED * SinCos(angle)[1]) \div 1000,
                          (BALL_INITIAL_SPEED * SinCos(angle)[2]) \div 1000>>]]
    ELSE [game |-> g, world |-> w]

\* launchBall with its random angle (239-248).
LaunchBall(g, w, angle) ==
    IF ~g.ballLaunched
    THEN [game |-> [g EXCEPT !.ballLaunched = TRUE],
          world |-> [w EXCEPT !.ballVel =
                        <<(BALL_INITIAL_SPEED * SinCos(angle)[1]) \div 1000,
                          (BALL_INITIAL_SPEED * SinCos(angle)[2]) \div 1000>>]]
    ELSE [game |-> g, world |-> w]

\* The ball follows the paddle before launch (342-352).
Follow2DKey(space, angle) ==
    /\ variant = "2D" /\ pc = "follow"
    /\ IF ~game.ballLaunched
       THEN LET w1 == [world EXCEPT !.ballPos = DockPos2D(world.paddleX)]
                r == IF space THEN LaunchBall(game, w1, angle)
                     ELSE [game |-> game, world |-> w1]
            IN game' = r.game /\ world' = r.world
       ELSE UNCHANGED <<game, world>>
    /\ pc' = "step"
    /\ UNCHANGED <<variant, gameState, gameOver, paddlePos, physicsSystem,
                   scored, hitSum, clearings, reactions, staleSeen, losses>>

\* b2World_Step and checkBrickCollisions (354-358): the step of dt/60 s
\* moves the paddle by its velocity, leaves a moving ball at ball and reports
\* the begin events evs.
Step2DWith(dt, ball, evs) ==
    LET w1 == [world EXCEPT
                 !.paddleX = @ + (world.paddleVel * dt) \div 60,
                 !.ballPos = IF world.ballVel = <<0, 0>> THEN @ ELSE ball.pos,
                 !.ballVel = IF world.ballVel = <<0, 0>> THEN @ ELSE ball.vel]
        r == CheckBrickCollisions([game |-> game, world |-> w1, hits |-> <<>>], evs)
        pts == [k \in 1..Len(r.hits) |-> game.bricks[r.hits[k]].hitPoints * 10]
    IN /\ variant = "2D" /\ pc = "step"
       /\ game' = r.game
       /\ world' = r.world
       /\ scored' = [i \in 1..(BRICK_ROWS * BRICK_COLS) |->
                       scored[i] + Cardinality({k \in 1..Len(r.hits) : r.hits[k] = i})]
       /\ hitSum' = hitSum + SumOver(pts, 1..Len(r.hits))
       /\ clearings' = IF ~CheckWin(game) /\ CheckWin(r.game)
                       THEN clearings + 1 ELSE clearings
       /\ staleSeen' = (staleSeen \/ StaleIn2D(game, evs))
       /\ pc' = "maintain"
       /\ UNCHANGED <<variant, gameState, gameOver, paddlePos, physicsSystem,
                      reactions, losses>>

\* maintainBallSpeed (288-308, called at 361).
Maintain2D ==
    /\ variant = "2D" /\ pc = "maintain"
    /\ world' = IF game.ballLaunched
                THEN [world EXCEPT !.ballVel = MaintainBallSpeed(world.ballVel)]
                ELSE world
    /\ pc' = "lost"
    /\ UNCHANGED <<variant, game, gameState, gameOver, paddlePos, physicsSystem,
                   scored, hitSum, clearings, reactions, staleSeen, losses>>

\* resetBall without zeroing the velocity.
ResetBallKeepsVelocity(g, w) ==
    [game |-> [g EXCEPT !.ballLaunched = FALSE],
     world |-> [w EXCEPT !.ballPos = DockPos2D(w.paddleX)]]

\* resetBall (229-236).
ResetBall(g, w) ==
    [game |-> [g EXCEPT !.ballLaunched = FALSE],
     world |-> [w EXCEPT !.ballPos = DockPos2D(w.paddleX), !.ballVel = <<0, 0>>]]

\* The ball-lost check ending the game only below zero lives.
Lost2DLateGameOver ==
    /\ variant = "2D" /\ pc = "lost"
    /\ IF game.ballLaunched /\ CheckBallLost(world)
       THEN LET g1 == [game EXCEPT !.lives = @ - 1]
            IN IF g1.lives < 0
               THEN game' = [g1 EXCEPT !.gameOver = TRUE] /\ world' = world
               ELSE game' = ResetBall(g1, world).game
                    /\ world' = ResetBall(g1, world).world
       ELSE UNCHANGED <<game, world>>
    /\ losses' = IF game.ballLaunched /\ CheckBallLost(world)
                 THEN losses + 1 ELSE losses
    /\ pc' = "win"
    /\ UNCHANGED <<variant, gameState, gameOver, paddlePos, physicsSystem,
                   scored, hitSum, clearings, reactions, staleSeen>>

\* The ball-lost check taking two lives.
Lost2DTakesTwo ==
    /\ variant = "2D" /\ pc = "lost"
    /\ IF game.ballLaunched /\ CheckBallLost(world)
       THEN LET g1 == [game EXCEPT !.lives = @ - 2]
            IN IF g1.lives <= 0
               THEN game' = [g1 EXCEPT !.gameOver = TRUE] /\ world' = world
               ELSE game' = ResetBall(g1, world).game
                    /\ world' = ResetBall(g1, world).world
       ELSE UNCHANGED <<game, world>>
    /\ losses' = IF game.ballLaunched /\ CheckBallLost(world)
                 THEN losses + 1 ELSE losses
    /\ pc' = "win"
    /\ UNCHANGED <<variant, gameState, gameOver, paddlePos, physicsSystem,
                   scored, hitSum, clearings, reactions, staleSeen>>

\* The ball-lost check (363-371).
Lost2D ==
    /\ variant = "2D" /\ pc = "lost"
    /\ IF game.ballLaunched /\ CheckBallLost(world)
       THEN LET g1 == [game EXCEPT !.lives = @ - 1]
            IN IF g1.lives <= 0
               THEN game' = [g1 EXCEPT !.gameOver = TRUE] /\ world' = world
               ELSE game' = ResetBall(g1, world).game
                    /\ world' = ResetBall(g1, world).world
       ELSE UNCHANGED <<game, world>>
    /\ losses' = IF game.ballLaunched /\ CheckBallLost(world)
                 THEN losses + 1 ELSE losses
    /\ pc' = "win"
    /\ UNCHANGED <<variant, gameState, gameOver, paddlePos, physicsSystem,
                   scored, hitSum, clearings, reactions, staleSeen>>

\* The win assignment without the call of checkWin.
Win2DNoCheck ==
    /\ variant = "2D" /\ pc = "win"
    /\ game' = [game EXCEPT !.gameWon = TRUE] /\ reactions' = reactions + 1
    /\ pc' = "begin"
    /\ UNCHANGED <<variant, world, gameState, gameOver, paddlePos, physicsSystem,
                   scored, hitSum, clearings, staleSeen, losses>>

\* The win check (373-376); the frame ends.
Win2D ==
    /\ variant = "2D" /\ pc = "win"
    /\ IF CheckWin(game)
       THEN game' = [game EXCEPT !.gameWon = TRUE] /\ reactions' = reactions + 1
       ELSE UNCHANGED <<game, reactions>>
    /\ pc' = "begin"
    /\ UNCHANGED <<variant, world, gameState, gameOver, paddlePos, physicsSystem,
                   scored, hitSum, clearings, staleSeen, losses>>

Begin2D ==
    /\ variant = "2D"
    /\ \E r \in BOOLEAN : (r => Gen2D < MaxGen) /\ Begin2DKey(r)

Paddle2D ==
    /\ variant = "2D"
    /\ \E left \in BOOLEAN, right \in BOOLEAN :
          /\ Paddle2DKeys(left, right)
          /\ Dist(world.paddleX + world'.paddleVel \div 60, WORLD_WIDTH \div 2)
               <= MaxDrift * (PADDLE_SPEED_2D \div 60)

Follow2D ==
    /\ variant = "2D"
    /\ \E space \in BOOLEAN, angle \in LaunchAngles : Follow2DKey(space, angle)

Step2D ==
    /\ variant = "2D"
    /\ \E dt \in FrameTimes, ball \in PhysBall2D, evs \in EventLists2D :
          Step2DWith(dt, ball, evs)

Init == Init2D \/ Init3D

Next ==
    \/ Begin2D \/ Paddle2D \/ Follow2D \/ Step2D \/ Maintain2D \/ Lost2D \/ Win2D
    \/ Paddle3D \/ Launch3D \/ Reset3D \/ Bounds3D \/ AllHit3D \/ Update3D

Spec == Init /\ [][Next]_vars

-----------------------------------------------------------------------------
(* The runs that study paddle movement: the same frames, with the movement *)
(* keys free (2D) or held within MoveDrift frames' way of the start (3D),  *)
(* and with physics steps that report no contact.                          *)

Paddle2DMove ==
    /\ variant = "2D"
    /\ \E left \in BOOLEAN, right \in BOOLEAN : Paddle2DKeys(left, right)

Step2DQuiet ==
    /\ variant = "2D"
    /\ \E dt \in FrameTimes, ball \in PhysBall2D : Step2DWith(dt, ball, <<>>)

Paddle3DMove ==
    /\ variant = "3D"
    /\ \E k \in MoveKeys3D :
          /\ Paddle3DKeys(k)
          /\ Dist(paddlePos'[1], PaddleStart3D[1]) <= MoveDrift * PaddleStep3D
          /\ Dist(paddlePos'[3], PaddleStart3D[3]) <= MoveDrift * PaddleStep3D

Update3DQuiet ==
    /\ variant = "3D"
    /\ \E ball \in StepBall3D : Update3DWith(<<>>, ball, gameState.score)

NextMove ==
    \/ Begin2D \/ Paddle2DMove \/ Follow2D \/ Step2DQuiet \/ Maintain2D
    \/ Lost2D \/ Win2D
    \/ Paddle3DMove \/ Launch3D \/ Reset3D \/ Bounds3D \/ AllHit3D
    \/ Update3DQuiet

SpecMove == Init /\ [][NextMove]_vars

-----------------------------------------------------------------------------
(* Properties.  The targets of the 3D program are the entries of           *)
(* gameState.targets, live while `active'; those of the 2D program are the *)
(* entries of game.bricks, live until `destroyed'.                         *)

\* ---------------------------------------------------------------------
\* The speed pass on its own: the ball is launched and b2World_Step has
\* left it any velocity of SpeedGrid (mm/s per axis: at rest, below the
\* 0.1 m/s test, about the 2 m/s minimum, at and beyond the target speed).
\* ---------------------------------------------------------------------
SpeedTolerance == 5

SpeedValues == {0, 1, 50, 100, 101, 1000, 1999, 2000, 2001, 6000, 8000,
                9798, 10000, 12000}

SpeedGrid == SpeedValues \cup {-v : v \in SpeedValues}

InitSpeed ==
    /\ variant = "2D"
    /\ pc = "maintain"
    /\ game = [InitGame(0) EXCEPT !.ballLaunched = TRUE]
    /\ \E vx \in SpeedGrid, vy \in SpeedGrid :
          world = [NewWorld(0) EXCEPT !.ballPos = <<800, 300>>,
                                      !.ballVel = <<vx, vy>>]
    /\ gameState = NoGame3D
    /\ gameOver = FALSE
    /\ paddlePos = <<0, 0, 0>>
    /\ physicsSystem = NoGame3D
    /\ scored = [i \in 1..(BRICK_ROWS * BRICK_COLS) |-> 0]
    /\ hitSum = 0
    /\ clearings = 0
    /\ reactions = 0
    /\ staleSeen = FALSE
    /\ losses = 0

NextSpeed == Maintain2D

SpecSpeed == InitSpeed /\ [][NextSpeed]_vars


\* ---------------------------------------------------------------------
\* The creation of the targets against the body ceiling of the physics
\* system.  The program passes cMaxBodies to physicsSystem.Init (302).  A
\* CreateBody that finds the ceiling reached returns a null pointer, which
\* CreateTarget dereferences unchecked (261-264).
\* ---------------------------------------------------------------------
cMaxBodies == 1024

\* The draws of one target in the setup: x, y, z in whole metres.
SetupDraws == {-8, 0, 8} \X (1..4) \X {-15, -11, -7}

\* What targetBody->GetID() may read through the null pointer.
InvalidBodyId == <<-1, 0>>

RECURSIVE SetupOutcomes(_, _, _, _)
\* ResetTargets' second loop under the body ceiling: a creation that is
\* rejected either ends the process in the dereference or yields a target
\* with an invalid handle, and the loop goes on.
SetupOutcomes(ps, targets, draws, ceiling) ==
    IF draws = <<>> THEN {[ps |-> ps, targets |-> targets, crashed |-> FALSE]}
    ELSE IF Cardinality(ps.added) >= ceiling
         THEN {[ps |-> ps, targets |-> targets, crashed |-> TRUE]}
              \cup SetupOutcomes(ps,
                                 Append(targets,
                                        [bodyId |-> InvalidBodyId,
                                         position |-> Head(draws),
                                         points |-> TargetPoints(Head(draws)[2]),
                                         active |-> TRUE]),
                                 Tail(draws), ceiling)
         ELSE LET made == CreateTarget(ps, Head(draws))
              IN SetupOutcomes(made.ps, Append(targets, made.target),
                               Tail(draws), ceiling)

\* The program before its first ResetTargets: floor, walls, paddle and ball
\* are bodies, the registry is empty.
InitCeiling ==
    /\ variant = "3D"
    /\ pc = "setup"
    /\ game = NoGame2D
    /\ world = NoGame2D
    /\ physicsSystem = [added |-> {<<i, 1>> : i \in 0..BallIdx},
                        seqNo |-> [i \in 0..(FirstTargetIdx + NUM_TARGETS) |->
                                     IF i <= BallIdx THEN 1 ELSE 0],
                        free |-> <<>>,
                        count |-> FirstTargetIdx,
                        paddle |-> PaddleStart3D,
                        ballPos |-> DockPos3D(PaddleStart3D),
                        ballVel |-> <<0, 0, 0>>,
                        destroyedTwice |-> FALSE]
    /\ gameState = [score |-> 0, ballsRemaining |-> INITIAL_BALLS,
                    ballInPlay |-> FALSE, targets |-> <<>>]
    /\ gameOver = FALSE
    /\ paddlePos = PaddleStart3D
    /\ scored = [i \in 1..NUM_TARGETS |-> 0]
    /\ hitSum = 0
    /\ clearings = 0
    /\ reactions = 0
    /\ staleSeen = FALSE
    /\ losses = 0

\* ---------------------------------------------------------------------
\* The game with the boundary checks met at every plane: besides the
\* initial states, frames that reach the check with the ball in play on
\* either side of each plane of BoundaryGrid3D (2D: of the bottom edge).
\* ---------------------------------------------------------------------
BoundaryGrid3D ==
    {-(ARENA_WIDTH \div 2) - 5 * 60 - 1, -(ARENA_WIDTH \div 2) - 5 * 60, 0,
     ARENA_WIDTH \div 2 + 5 * 60, ARENA_WIDTH \div 2 + 5 * 60 + 1}
    \X {-2 * 60 - 1, -2 * 60, 2 * 60}
    \X {-(ARENA_DEPTH \div 2) - 5 * 60 - 1, -(ARENA_DEPTH \div 2) - 5 * 60, 0,
        ARENA_DEPTH \div 2 + 5 * 60, ARENA_DEPTH \div 2 + 5 * 60 + 1}

BoundaryGrid2D == {800} \X {-1, 0, 1}

InitBounds3D ==
    LET ps0 == [added |-> {<<i, 1>> : i \in 0..BallIdx},
                seqNo |-> [i \in 0..(FirstTargetIdx + NUM_TARGETS) |->
                              IF i <= BallIdx THEN 1 ELSE 0],
                free |-> <<>>,
                count |-> FirstTargetIdx,
                paddle |-> PaddleStart3D,
                ballPos |-> DockPos3D(PaddleStart3D),
                ballVel |-> <<0, 3000, -BALL_SPEED>>,
                destroyedTwice |-> FALSE]
    IN /\ variant = "3D"
       /\ pc = "bounds"
       /\ game = NoGame2D
       /\ world = NoGame2D
       /\ \E draws \in TargetDraws, p \in BoundaryGrid3D,
             left \in 0..(INITIAL_BALLS - 1) :
            LET r == ResetTargets(ps0, <<>>, draws)
            IN /\ physicsSystem = [r.ps EXCEPT !.ballPos = p]
               /\ gameState = [score |-> 0, ballsRemaining |-> left,
                               ballInPlay |-> TRUE, targets |-> r.targets]
               /\ losses = INITIAL_BALLS - left - 1
       /\ gameOver = FALSE
       /\ paddlePos = PaddleStart3D
       /\ scored = [i \in 1..NUM_TARGETS |-> 0]
       /\ hitSum = 0
       /\ clearings = 0
       /\ reactions = 0
       /\ staleSeen = FALSE

InitBounds2D ==
    /\ variant = "2D"
    /\ pc = "lost"
    /\ \E p \in BoundaryGrid2D, lives \in 1..INITIAL_LIVES :
          /\ game = [InitGame(0) EXCEPT !.ballLaunched = TRUE, !.lives = lives]
          /\ world = [NewWorld(0) EXCEPT !.ballPos = p,
                                         !.ballVel = <<0, -BALL_INITIAL_SPEED>>]
          /\ losses = INITIAL_LIVES - lives
    /\ gameState = NoGame3D
    /\ gameOver = FALSE
    /\ paddlePos = <<0, 0, 0>>
    /\ physicsSystem = NoGame3D
    /\ scored = [i \in 1..(BRICK_ROWS * BRICK_COLS) |-> 0]
    /\ hitSum = 0
    /\ clearings = 0
    /\ reactions = 0
    /\ staleSeen = FALSE

InitBounds == Init \/ InitBounds3D \/ InitBounds2D

SpecBounds == InitBounds /\ [][Next]_vars


\* ---------------------------------------------------------------------
\* The spawning on its own: the first ResetTargets of the 3D program (384)
\* with every height GetRandomValue(1, 4) may draw, and the restart of the
\* 2D program out of a lost game, which creates the bricks anew.
\* ---------------------------------------------------------------------
InitSpawn2D ==
    /\ variant = "2D"
    /\ pc = "begin"
    /\ \E score \in {0, 10} :
          game = [InitGame(0) EXCEPT !.gameOver = TRUE, !.lives = 0,
                                     !.score = score, !.ballLaunched = TRUE]
    /\ world = [NewWorld(0) EXCEPT !.ballPos = <<800, -6>>,
                                   !.ballVel = <<0, -BALL_INITIAL_SPEED>>]
    /\ gameState = NoGame3D
    /\ gameOver = FALSE
    /\ paddlePos = <<0, 0, 0>>
    /\ physicsSystem = NoGame3D
    /\ scored = [i \in 1..(BRICK_ROWS * BRICK_COLS) |-> 0]
    /\ hitSum = 0
    /\ clearings = 0
    /\ reactions = 0
    /\ staleSeen = FALSE
    /\ losses = INITIAL_LIVES

InitSpawn == InitCeiling \/ InitSpawn2D

\* The initial ResetTargets (384) on a physics system with room for every
\* body.
Spawn3D ==
    /\ variant = "3D" /\ pc = "setup"
    /\ \E draws \in [1..NUM_TARGETS -> SetupDraws] :
          LET res == ResetTargets(physicsSystem, gameState.targets, draws)
          IN /\ physicsSystem' = res.ps
             /\ gameState' = [gameState EXCEPT !.targets = res.targets]
    /\ pc' = "paddle"
    /\ UNCHANGED <<variant, game, world, gameOver, paddlePos, scored, hitSum,
                   clearings, reactions, staleSeen, losses>>

NextSpawn == Spawn3D \/ Begin2D

SpecSpawn == InitSpawn /\ [][NextSpawn]_vars


\* ---------------------------------------------------------------------
\* The game with its shutdown: WindowShouldClose ends the frame loop at the
\* top of a frame and the cleanup runs (3D 575-593, 2D 494).
\* ---------------------------------------------------------------------
RECURSIVE RemoveBodies(_, _)
\* RemoveBody and DestroyBody for each body of ids, untested (575-586).
RemoveBodies(ps, ids) ==
    IF ids = <<>> THEN ps
    ELSE RemoveBodies(RemoveAndDestroyBody(ps, Head(ids)), Tail(ids))

\* The 3D cleanup: ball, paddle, floor and walls, then every target whose
\* body is still added (588-593).
Close3D ==
    /\ variant = "3D" /\ pc = "paddle"
    /\ physicsSystem' =
          RemoveOldTargets(RemoveBodies(physicsSystem,
                                        <<gBallId, paddleId3D, <<0, 1>>, <<1, 1>>,
                                          <<2, 1>>, <<3, 1>>>>),
                           gameState.targets)
    /\ pc' = "closed"
    /\ UNCHANGED <<variant, game, world, gameState, gameOver, paddlePos, scored,
                   hitSum, clearings, reactions, staleSeen, losses>>

\* The 2D cleanup: b2DestroyWorld (494).
Close2D ==
    /\ variant = "2D" /\ pc = "begin"
    /\ world' = [world EXCEPT !.bodies = {}]
    /\ pc' = "closed"
    /\ UNCHANGED <<variant, game, gameState, gameOver, paddlePos, physicsSystem,
                   scored, hitSum, clearings, reactions, staleSeen, losses>>

NextClose == Next \/ Close3D \/ Close2D

SpecClose == Init /\ [][NextClose]_vars


Is3D == variant = "3D"
Is2D == variant = "2D"

\* The targets (by index) that the events evs pair with the ball.
NamedWithBall3D(evs) ==
    {i \in 1..Len(gameState.targets) :
        \E k \in 1..Len(evs) :
            \/ evs[k] = <<gBallId, gameState.targets[i].bodyId>>
            \/ evs[k] = <<gameState.targets[i].bodyId, gBallId>>}

NamedWithBall2D(evs) ==
    {i \in 1..Len(game.bricks) :
        \E k \in 1..Len(evs) :
            \/ evs[k] = <<ballShape, game.bricks[i].shapeId>>
            \/ evs[k] = <<game.bricks[i].shapeId, ballShape>>}

\* The targets that this step takes from live to not live, and their points.
Killed3D == {i \in 1..Len(gameState.targets) :
                /\ gameState.targets[i].active
                /\ Len(gameState'.targets) >= i
                /\ ~gameState'.targets[i].active}

Killed2D == {i \in 1..Len(game.bricks) :
                /\ ~game.bricks[i].destroyed
                /\ Len(game'.bricks) >= i
                /\ game'.bricks[i].destroyed}

Points3D == [i \in 1..Len(gameState.targets) |-> gameState.targets[i].points]
Points2D == [i \in 1..Len(game.bricks) |-> game.bricks[i].hitPoints * 10]

(* C1: a target instance is marked destroyed and scored at most once,      *)
(* however many contact events name it, in the same step or in later ones. *)
C1_ScoredAtMostOnce == \A i \in DOMAIN scored : scored[i] <= 1

\* A target was scored once and an event named it again afterwards.
C1_Witness == staleSeen /\ \E i \in DOMAIN scored : scored[i] = 1

(* C2: in every resolution pass each event that pairs the ball with a live *)
(* target destroys that target, and the score grows in that pass by the    *)
(* points of the targets destroyed in it.                                  *)
C2_LiveMatchScoredInPass ==
    [][/\ Is3D /\ pc = "update" =>
            \A evs \in EventLists3D, ball \in StepBall3D :
               (\E landed \in RaceScores(gameState.score, gameState.targets,
                                         Callbacks(gameState, <<>>, evs).hits) :
                    Update3DWith(evs, ball, landed))
               => /\ \A i \in NamedWithBall3D(evs) :
                        ~gameState'.targets[i].active
                  /\ gameState'.score
                       = gameState.score + SumOver(Points3D, Killed3D)
       /\ Is2D /\ pc = "step" =>
            \A dt \in FrameTimes, ball \in PhysBall2D, evs \in EventLists2D :
               Step2DWith(dt, ball, evs)
               => /\ \A i \in NamedWithBall2D(evs) : game'.bricks[i].destroyed
                  /\ game'.score = game.score + SumOver(Points2D, Killed2D)
      ]_vars

(* C3: the score is the sum of the points of the targets destroyed since   *)
(* the last reset (or the start).                                          *)
C3_ScoreIsSumOfDestroyed ==
    /\ Is3D => gameState.score = hitSum
    /\ Is2D => game.score = hitSum

\* An event the resolution has to ignore: the ball is on neither side, or
\* the other side is a target that is already destroyed.
Ignorable3D(e) ==
    \/ e[1] /= gBallId /\ e[2] /= gBallId
    \/ \E i \in 1..Len(gameState.targets) :
          /\ ~gameState.targets[i].active
          /\ gameState.targets[i].bodyId \in {e[1], e[2]}

Ignorable2D(e) ==
    \/ e[1] /= ballShape /\ e[2] /= ballShape
    \/ \E i \in 1..Len(game.bricks) :
          /\ game.bricks[i].destroyed
          /\ game.bricks[i].shapeId \in {e[1], e[2]}

\* The pairs an event can name by its type: any two bodies (shapes) of the
\* world, the pairs no step delivers included.
AnyPairs3D == {p \in ContactIds3D \X ContactIds3D : p[1] /= p[2]}

AnyPairs2D ==
    LET S == {topWallShape, paddleShape, ballShape} \cup BrickShapes
    IN {p \in S \X S : p[1] /= p[2]}

\* The live bricks whose shape the event e names.
LiveNamed2D(e) ==
    {i \in 1..Len(game.bricks) :
        ~game.bricks[i].destroyed /\ game.bricks[i].shapeId \in {e[1], e[2]}}

C5_DestroyedHasNoBody ==
    /\ Is3D => \A i \in 1..Len(gameState.targets) :
                  ~gameState.targets[i].active
                  => gameState.targets[i].bodyId \notin physicsSystem.added
    /\ Is2D => \A i \in 1..Len(game.bricks) :
                  game.bricks[i].destroyed
                  => game.bricks[i].bodyId \notin world.bodies

\* The step is a clear-and-respawn of the targets.
Respawn3D ==
    /\ Is3D
    /\ \/ pc = "reset" /\ \E draws \in TargetDraws : Reset3DKey(TRUE, draws)
       \/ /\ pc = "allhit"
          /\ AllHit(gameState.targets) /\ gameState.targets /= <<>>
          /\ \E draws \in TargetDraws : AllHit3DDraws(draws)

\* The step is an accepted reset command.
ResetAccepted3D == Is3D /\ pc = "reset" /\ \E draws \in TargetDraws : Reset3DKey(TRUE, draws)
ResetAccepted2D ==
    Is2D /\ pc = "begin" /\ (game.gameOver \/ game.gameWon) /\ Begin2DKey(TRUE)

\* After the step the registry holds the configured number of targets, all
\* live and each with its body in the world.
FreshTargets3D ==
    /\ Len(gameState'.targets) = NUM_TARGETS
    /\ \A i \in 1..Len(gameState'.targets) :
          /\ gameState'.targets[i].active
          /\ gameState'.targets[i].bodyId \in physicsSystem'.added

FreshTargets2D ==
    /\ Len(game'.bricks) = BRICK_ROWS * BRICK_COLS
    /\ \A i \in 1..Len(game'.bricks) :
          /\ ~game'.bricks[i].destroyed
          /\ game'.bricks[i].bodyId \in world'.bodies

(* C6: after every clear-and-respawn the registry holds exactly the        *)
(* configured number of targets (NUM_TARGETS; BRICK_ROWS * BRICK_COLS) and *)
(* every one of them is live.                                              *)
C6_RespawnFillsRegistry ==
    [][/\ Respawn3D => FreshTargets3D
       /\ ResetAccepted2D => FreshTargets2D]_vars

\* The all-cleared respawn of the 3D program has just run.
C6_Witness ==
    /\ Is3D /\ pc = "update" /\ reactions = 1 /\ Gen3D = 2
    /\ Len(gameState.targets) = NUM_TARGETS
    /\ \A i \in 1..NUM_TARGETS : gameState.targets[i].active

(* C7: the all-cleared reaction (3D: the respawn, 2D: gameWon) runs once   *)
(* for each clearing: never without a clearing, never twice for one, and   *)
(* by the end of the frame's check it has run for every clearing so far.   *)
C7_ReactionOncePerClearing ==
    /\ reactions <= clearings
    /\ clearings <= reactions + 1
    /\ Is3D /\ pc = "update" => reactions = clearings
    /\ Is2D /\ pc \in {"begin", "paddle", "follow", "step"} => reactions = clearings

\* A frame after the reaction to a clearing has ended.
C7_Witness ==
    \/ Is3D /\ pc = "paddle" /\ clearings = 1 /\ reactions = 1
    \/ Is2D /\ pc = "begin" /\ clearings = 1 /\ reactions = 1 /\ game.gameWon

(* C8: with no attempts left a launch command changes nothing: the in-play *)
(* flag, the attempts, the score and the ball velocity stay as they are.   *)
(* In the 2D program lives = 0 means gameOver, and the frame returns       *)
(* before it reads the launch key.                                         *)
C8_LaunchWithoutAttemptsIsNoOp ==
    [][/\ (Is3D /\ pc = "launch" /\ gameState.ballsRemaining = 0)
            => /\ gameState'.ballInPlay = gameState.ballInPlay
               /\ gameState'.ballsRemaining = gameState.ballsRemaining
               /\ gameState'.score = gameState.score
               /\ physicsSystem'.ballVel = physicsSystem.ballVel
       /\ (Is2D /\ game.lives = 0 /\ ~ResetAccepted2D)
            => /\ game'.ballLaunched = game.ballLaunched
               /\ game'.lives = game.lives
               /\ game'.score = game.score
               /\ world'.ballVel = world.ballVel]_vars

\* The launch block has run with no balls left and no ball in play.
C8_Witness ==
    Is3D /\ pc = "reset" /\ gameState.ballsRemaining = 0 /\ ~gameState.ballInPlay

\* What every accepted reset restores.
Restored3D ==
    /\ gameState'.score = 0
    /\ gameState'.ballsRemaining = INITIAL_BALLS
    /\ ~gameState'.ballInPlay
    /\ ~gameOver'
    /\ FreshTargets3D

Restored2D ==
    /\ game'.score = 0
    /\ game'.lives = INITIAL_LIVES
    /\ ~game'.gameOver /\ ~game'.gameWon
    /\ ~game'.ballLaunched
    /\ FreshTargets2D

TargetIds3D(gs) == {gs.targets[i].bodyId : i \in 1..Len(gs.targets)}
BrickIds2D(g) == {g.bricks[i].bodyId : i \in 1..Len(g.bricks)}

(* C9, as stated: every accepted reset restores score, attempts and flags  *)
(* and replaces the targets by fresh live ones whose body ids differ from  *)
(* every body id of the previous generation, in both programs.             *)
C9_ResetFreshIdsBoth ==
    [][/\ ResetAccepted3D
            => Restored3D /\ TargetIds3D(gameState') \cap TargetIds3D(gameState) = {}
       /\ ResetAccepted2D
            => Restored2D /\ BrickIds2D(game') \cap BrickIds2D(game) = {}]_vars

(* C9, amended: every accepted reset restores score, attempts and flags    *)
(* and replaces the targets by fresh live ones.  In the 3D program the new *)
(* body ids differ from every id of the previous generation; in the 2D     *)
(* program the new bricks are bodies of a newly created world, and their   *)
(* body ids are those of the previous generation again.                    *)
C9_ResetFreshTargets ==
    [][/\ ResetAccepted3D
            => Restored3D /\ TargetIds3D(gameState') \cap TargetIds3D(gameState) = {}
       /\ ResetAccepted2D
            => /\ Restored2D
               /\ game'.worldId /= game.worldId
               /\ BrickIds2D(game') = BrickIds2D(game)]_vars

\* A 2D game restarted after it was lost or won.
C9_Witness ==
    /\ Is2D /\ pc = "begin" /\ world.generation = 1
    /\ game.score = 0 /\ game.lives = INITIAL_LIVES
    /\ ~game.gameOver /\ ~game.gameWon /\ ~game.ballLaunched
    /\ \A i \in 1..Len(game.bricks) : ~game.bricks[i].destroyed

\* The step is a launch command accepted with the ball idle.
LaunchAccepted3D ==
    /\ Is3D /\ pc = "launch"
    /\ ~gameState.ballInPlay /\ gameState.ballsRemaining > 0
    /\ Launch3DKey(TRUE)

LaunchAccepted2D ==
    /\ Is2D /\ pc = "follow"
    /\ ~game.ballLaunched /\ game.lives > 0
    /\ \E angle \in LaunchAngles : Follow2DKey(TRUE, angle)

(* C10, as stated: a launch command accepted with the ball idle and        *)
(* attempts left puts the ball in play and takes exactly one attempt, in   *)
(* both programs.                                                          *)
C10_LaunchTakesAttemptBoth ==
    [][/\ LaunchAccepted3D
            => /\ gameState'.ballInPlay
               /\ gameState'.ballsRemaining = gameState.ballsRemaining - 1
       /\ LaunchAccepted2D
            => /\ game'.ballLaunched
               /\ game'.lives = game.lives - 1]_vars

(* C10, amended: a launch command accepted with the ball idle and attempts *)
(* left puts the ball in play; it takes exactly one ball in the 3D program *)
(* and leaves the lives as they are in the 2D program.                     *)
C10_LaunchTakesBallNotLife ==
    [][/\ LaunchAccepted3D
            => /\ gameState'.ballInPlay
               /\ gameState'.ballsRemaining = gameState.ballsRemaining - 1
       /\ LaunchAccepted2D
            => /\ game'.ballLaunched
               /\ game'.lives = game.lives]_vars

\* The 2D ball has just been launched from the paddle.
C10_Witness ==
    /\ Is2D /\ pc = "step" /\ game.ballLaunched
    /\ world.ballPos = DockPos2D(world.paddleX) /\ world.ballVel /= <<0, 0>>
    /\ game.lives = INITIAL_LIVES

(* C11: from a fresh game with N attempts, the game is over exactly when   *)
(* the N-th ball has been lost, never earlier and never later; after k < N *)
(* losses the attempts left are N - k, less the ball in play (3D), and the *)
(* game goes on.                                                           *)
C11_GameOverOnNthLoss ==
    /\ Is3D => /\ losses <= INITIAL_BALLS
               /\ gameOver <=> losses = INITIAL_BALLS
               /\ gameState.ballsRemaining
                    = INITIAL_BALLS - losses
                      - (IF gameState.ballInPlay THEN 1 ELSE 0)
    /\ Is2D => /\ losses <= INITIAL_LIVES
               /\ game.gameOver <=> losses = INITIAL_LIVES
               /\ game.lives = INITIAL_LIVES - losses

\* The 3D game is over after N losses without a hit.
C11_Witness ==
    /\ Is3D /\ gameOver /\ losses = INITIAL_BALLS /\ hitSum = 0
    /\ gameState.ballsRemaining = 0 /\ ~gameState.ballInPlay

\* The step is a boundary check that finds the ball in play out of bounds.
OutDetected3D ==
    /\ Is3D /\ pc = "bounds"
    /\ gameState.ballInPlay /\ OutOfBounds3D(physicsSystem.ballPos)

OutDetected2D ==
    Is2D /\ pc = "lost" /\ game.ballLaunched /\ CheckBallLost(world)

(* C12: when the ball in play is found out of bounds, then with attempts   *)
(* left the game is Idle again, the ball docked at the paddle with zero    *)
(* velocity and GameOver not set, and with no attempts left GameOver is    *)
(* set.  The attempts are those left once the loss is counted.             *)
C12_OutOfBoundsOutcomes ==
    [][/\ OutDetected3D =>
            IF gameState'.ballsRemaining > 0
            THEN /\ ~gameState'.ballInPlay
                 /\ physicsSystem'.ballPos = DockPos3D(paddlePos)
                 /\ physicsSystem'.ballVel = <<0, 0, 0>>
                 /\ ~gameOver'
            ELSE gameOver'
       /\ OutDetected2D =>
            IF game'.lives > 0
            THEN /\ ~game'.ballLaunched
                 /\ world'.ballPos = DockPos2D(world.paddleX)
                 /\ world'.ballVel = <<0, 0>>
                 /\ ~game'.gameOver
            ELSE game'.gameOver]_vars

\* The first 3D ball was just lost with one ball left.
C12_Witness ==
    /\ Is3D /\ pc = "allhit" /\ losses = 1 /\ ~gameOver
    /\ ~gameState.ballInPlay /\ gameState.ballsRemaining = INITIAL_BALLS - 1
    /\ physicsSystem.ballPos = DockPos3D(paddlePos)
    /\ physicsSystem.ballVel = <<0, 0, 0>>

(* C13: while GameOver holds, a frame's handling of the movement and the   *)
(* launch keys changes nothing: paddle, ball, score, attempts, targets and *)
(* flags stay as they are.                                                 *)
C13_GameOverIgnoresKeys ==
    [][/\ (Is3D /\ gameOver /\ pc \in {"paddle", "launch"})
            => UNCHANGED <<paddlePos, physicsSystem, gameState, gameOver>>
       /\ (Is2D /\ game.gameOver /\ ~ResetAccepted2D)
            => UNCHANGED <<game, world>>]_vars

\* The step is a frame of the 2D program in which R is pressed.
ResetPressed2D == Is2D /\ pc = "begin" /\ Begin2DKey(TRUE)

\* After the step the 3D ball is the body it was, at rest on the paddle.
SameBallDocked3D ==
    /\ gBallId \in physicsSystem.added /\ gBallId \in physicsSystem'.added
    /\ physicsSystem'.ballPos = DockPos3D(paddlePos)
    /\ physicsSystem'.ballVel = <<0, 0, 0>>

\* After the step the 2D ball is a body of the world, at rest on the paddle.
BallDocked2D ==
    /\ game'.ballId \in world'.bodies
    /\ world'.ballPos = DockPos2D(world'.paddleX)
    /\ world'.ballVel = <<0, 0>>

(* C14 as stated: a reset command is accepted in every state, InPlay       *)
(* included, and it keeps the one ball body: the ball is moved to the      *)
(* paddle and stopped, never destroyed and created again.                  *)
C14_ResetAnywhereKeepsBall ==
    [][/\ ResetAccepted3D => Restored3D /\ SameBallDocked3D
       /\ ResetPressed2D => /\ Restored2D /\ BallDocked2D
                            /\ game'.worldId = game.worldId
                            /\ game'.ballId = game.ballId]_vars

(* C14 amended: in the 3D program a reset is accepted in every state and   *)
(* keeps the ball body, docked and stopped. In the 2D program R acts only  *)
(* in GameOver or GameWon, where it destroys the world and creates a new   *)
(* one with a new ball body docked and stopped; in any other state         *)
(* pressing R changes nothing.                                             *)
C14_ResetKeepsOrRebuildsBall ==
    [][/\ ResetAccepted3D => Restored3D /\ SameBallDocked3D
       /\ ResetAccepted2D => /\ Restored2D /\ BallDocked2D
                             /\ game'.worldId /= game.worldId
                             /\ world'.generation /= world.generation
       /\ (ResetPressed2D /\ ~ResetAccepted2D) => UNCHANGED <<game, world>>]_vars

C14_Witness ==
    /\ Is2D /\ pc = "paddle" /\ world.generation = 1
    /\ game.worldId = <<1, 1>> /\ game.ballId \in world.bodies
    /\ world.ballPos = DockPos2D(world.paddleX) /\ world.ballVel = <<0, 0>>
    /\ game.score = 0 /\ game.lives = INITIAL_LIVES /\ ~game.ballLaunched

\* The bodies of the 3D world that are neither floor, wall, paddle nor the
\* body of a registered target.
BallBodies3D(ps, gs) ==
    ps.added \ ({<<i, 1>> : i \in 0..PaddleIdx} \cup TargetIds3D(gs))

\* The bodies of the 2D world that are neither wall, paddle nor the body of
\* a brick still standing.
BallBodies2D(g, w) ==
    w.bodies \ ((1..PaddleBody2D) \cup
                 {g.bricks[i].bodyId : i \in {j \in 1..Len(g.bricks) : ~g.bricks[j].destroyed}})

(* C15: at every time exactly one ball body exists; within a round its     *)
(* handle does not change and the body is not destroyed, whatever the      *)
(* state (idle or in play) and whatever is launched, lost or hit.          *)
C15_OneBallBody ==
    [][/\ Is3D => /\ BallBodies3D(physicsSystem, gameState) = {gBallId}
                  /\ BallBodies3D(physicsSystem', gameState') = {gBallId}
       /\ Is2D => /\ BallBodies2D(game, world) = {game.ballId}
                  /\ BallBodies2D(game', world') = {game'.ballId}
                  /\ ~ResetAccepted2D => /\ game'.ballId = game.ballId
                                         /\ game'.worldId = game.worldId]_vars

C15_Witness ==
    /\ Is2D /\ pc = "win" /\ losses = 1 /\ hitSum > 0 /\ ~game.ballLaunched
    /\ BallBodies2D(game, world) = {BallBody2D}

(* C16: whatever keys are held over whatever number of frames, the paddle  *)
(* stays within the arena less half its extent on every axis it moves on:  *)
(* in 2D x in [PADDLE_WIDTH/2, WORLD_WIDTH - PADDLE_WIDTH/2], in 3D x and  *)
(* z within the arena less half the paddle's width and depth.              *)
C16_PaddleWithinArena ==
    /\ Is2D => /\ world.paddleX >= PADDLE_WIDTH_2D \div 2
               /\ world.paddleX <= WORLD_WIDTH - PADDLE_WIDTH_2D \div 2
    /\ Is3D => /\ Abs(physicsSystem.paddle[1])
                    <= ARENA_WIDTH \div 2 - PADDLE_WIDTH_3D \div 2
               /\ Abs(physicsSystem.paddle[3])
                    <= ARENA_DEPTH \div 2 - PADDLE_DEPTH \div 2

(* C17: whenever the ball is not launched, its position is the paddle's    *)
(* position plus the fixed standoff, in every frame, after any paddle      *)
(* movement and any physics step.                                          *)
C17_IdleBallOnPaddle ==
    /\ (Is3D /\ ~gameState.ballInPlay)
         => physicsSystem.ballPos = DockPos3D(physicsSystem.paddle)
    /\ (Is2D /\ ~game.ballLaunched)
         => world.ballPos = DockPos2D(world.paddleX)

\* The step is a maintainBallSpeed pass on a launched ball.
SpeedPass == Is2D /\ pc = "maintain" /\ game.ballLaunched

\* The square of the speed of the velocity vel.
SpeedSq(vel) == vel[1] * vel[1] + vel[2] * vel[2]

\* The speed of vel is within SpeedTolerance of BALL_INITIAL_SPEED.
AtTargetSpeed(vel) ==
    /\ SpeedSq(vel) >= (BALL_INITIAL_SPEED - SpeedTolerance)
                          * (BALL_INITIAL_SPEED - SpeedTolerance)
    /\ SpeedSq(vel) <= (BALL_INITIAL_SPEED + SpeedTolerance)
                          * (BALL_INITIAL_SPEED + SpeedTolerance)

(* C18: after every maintainBallSpeed pass on a launched ball, the ball's  *)
(* speed is within the tolerance of BALL_INITIAL_SPEED, whatever velocity  *)
(* the physics step left: at rest, near zero, near horizontal.             *)
C18_SpeedAtTargetAfterPass ==
    [][SpeedPass => AtTargetSpeed(world'.ballVel)]_vars

C18_Witness ==
    /\ Is2D /\ pc = "lost" /\ game.ballLaunched
    /\ world.ballVel[2] < 0 /\ world.ballVel[2] > -2000
    /\ AtTargetSpeed(world.ballVel)

(* C19: after every maintainBallSpeed pass on a launched ball, the y       *)
(* component of its velocity has magnitude at least 2.0 and the sign it    *)
(* had before the pass, zero counted as positive.                          *)
C19_MinVerticalAfterPass ==
    [][SpeedPass => /\ Abs(world'.ballVel[2]) >= 2000
                    /\ (world'.ballVel[2] >= 0) <=> (world.ballVel[2] >= 0)]_vars

(* C20: from one step to the next the score never decreases, except by an  *)
(* accepted reset; in both programs, whatever the keys and the contact     *)
(* events.                                                                 *)
C20_ScoreNeverDecreases ==
    [][/\ (Is3D /\ ~ResetAccepted3D) => gameState'.score >= gameState.score
       /\ (Is2D /\ ~ResetAccepted2D) => game'.score >= game.score]_vars

C20_Witness ==
    /\ Is2D /\ pc = "begin" /\ game.gameWon /\ losses > 0
    /\ game.score = hitSum /\ game.score > 0

(* C21: between two resets the attempts counter never increases, and it    *)
(* is never below 0 nor above its initial value (3D ballsRemaining, 2D     *)
(* lives).                                                                 *)
C21_AttemptsOnlyFall ==
    [][/\ Is3D => /\ gameState'.ballsRemaining \in 0..INITIAL_BALLS
                  /\ ~ResetAccepted3D
                       => gameState'.ballsRemaining <= gameState.ballsRemaining
       /\ Is2D => /\ game'.lives \in 0..INITIAL_LIVES
                  /\ ~ResetAccepted2D => game'.lives <= game.lives]_vars

C21_Witness ==
    /\ Is2D /\ pc = "win" /\ game.lives = 0 /\ game.gameOver
    /\ losses = INITIAL_LIVES

(* C22: score, attempts, terminal flags and the target registry are        *)
(* written only by the game-logic thread between two physics step calls:   *)
(* the step call itself (3D physicsSystem.Update, 2D b2World_Step) writes  *)
(* none of them, the 2D writes of that phase being those                   *)
(* checkBrickCollisions makes once the step has returned.                  *)
C22_NoWriteDuringStep ==
    [][/\ (Is3D /\ pc = "update") => UNCHANGED <<gameState, gameOver>>
       /\ (Is2D /\ pc = "step")
            => \E evs \in EventLists2D :
                  game' = CheckBrickCollisions([game |-> game, world |-> world',
                                                hits |-> <<>>], evs).game]_vars

\* The event e names no target of gs that is active, no brick of g that
\* stands.
NoLiveTarget3D(gs, e) ==
    \A i \in 1..Len(gs.targets) :
        gs.targets[i].active => gs.targets[i].bodyId \notin {e[1], e[2]}

NoLiveBrick2D(g, e) ==
    \A i \in 1..Len(g.bricks) :
        ~g.bricks[i].destroyed => g.bricks[i].shapeId \notin {e[1], e[2]}

\* The state in which the k-th event of evs is handled.
Before3D(evs, k) == Callbacks(gameState, <<>>, SubSeq(evs, 1, k - 1)).gs

Before2D(evs, k) ==
    CheckBrickCollisions([game |-> game, world |-> world, hits |-> <<>>],
                         SubSeq(evs, 1, k - 1))

(* C23: a contact-begin event naming no live target (an unknown body, or a *)
(* target destroyed before, earlier in the same pass included) is a no-op: *)
(* handling it changes nothing, and a pass whose events are all of that    *)
(* kind leaves score, attempts, flags, targets and bodies as they were.    *)
C23_NoLiveTargetNoOp ==
    /\ (Is3D /\ pc = "update") =>
          \A evs \in EventLists3D :
             /\ \A k \in 1..Len(evs) :
                   NoLiveTarget3D(Before3D(evs, k), evs[k])
                   => OnContactAdded(Before3D(evs, k), evs[k][1], evs[k][2])
                        = [gs |-> Before3D(evs, k), hit |-> 0]
             /\ (\A k \in 1..Len(evs) : NoLiveTarget3D(gameState, evs[k]))
                => /\ Callbacks(gameState, <<>>, evs)
                        = [gs |-> gameState, hits |-> <<>>]
                   /\ RaceScores(gameState.score, gameState.targets,
                                 Callbacks(gameState, <<>>, evs).hits)
                        = {gameState.score}
    /\ (Is2D /\ pc = "step") =>
          \A evs \in EventLists2D :
             /\ \A k \in 1..Len(evs) :
                   NoLiveBrick2D(Before2D(evs, k).game, evs[k])
                   => BrickEvent(Before2D(evs, k), evs[k][1], evs[k][2])
                        = Before2D(evs, k)
             /\ (\A k \in 1..Len(evs) : NoLiveBrick2D(game, evs[k]))
                => CheckBrickCollisions([game |-> game, world |-> world,
                                         hits |-> <<>>], evs)
                     = [game |-> game, world |-> world, hits |-> <<>>]

C23_Witness ==
    /\ Is2D /\ pc = "maintain" /\ staleSeen
    /\ game.score = hitSum /\ game.score > 0
    /\ ~game.gameOver /\ ~game.gameWon

\* The bodies left when ResetTargets has removed the old targets.
AfterRemoval3D == RemoveOldTargets(physicsSystem, gameState.targets)

LaunchInPlay3D ==
    Is3D /\ pc = "launch" /\ gameState.ballInPlay /\ Launch3DKey(TRUE)

LaunchInPlay2D ==
    /\ Is2D /\ pc = "follow" /\ game.ballLaunched
    /\ \E angle \in LaunchAngles : Follow2DKey(TRUE, angle)

(* C25: a launch command given while the ball is in play is ignored:       *)
(* attempts, the in-play flag, the score, the terminal flags and the       *)
(* ball's position and velocity are unchanged, and the frame goes on.      *)
C25_LaunchInPlayIgnored ==
    [][/\ LaunchInPlay3D => /\ UNCHANGED <<gameState, gameOver, physicsSystem>>
                            /\ pc' = "reset"
       /\ LaunchInPlay2D => /\ UNCHANGED <<game, world>>
                            /\ pc' = "step"]_vars

C25_Witness ==
    /\ Is3D /\ pc = "reset" /\ gameState.ballInPlay
    /\ physicsSystem.ballPos /= DockPos3D(paddlePos)
    /\ gameState.ballsRemaining = INITIAL_BALLS - 1
    /\ ~gameOver

\* The 3D all-hit test (463-471) on the registry targets.
AllDestroyed3D(targets) == AllHit(targets) /\ targets /= <<>>

\* Every member of the registry reg is destroyed, and there is one.
NonEmptyAllDestroyed2D(reg) ==
    reg /= <<>> /\ \A i \in 1..Len(reg) : reg[i].destroyed

NonEmptyAllDestroyed3D(reg) ==
    reg /= <<>> /\ \A i \in 1..Len(reg) : ~reg[i].active

EventSet(evs) == {evs[k] : k \in 1..Len(evs)}

\* The game states one physicsSystem.Update delivering evs may leave.
Outcomes3D(evs) ==
    LET r == Callbacks(gameState, <<>>, evs)
    IN {[r.gs EXCEPT !.score = landed] :
          landed \in RaceScores(gameState.score, gameState.targets, r.hits)}

\* The game and the bodies checkBrickCollisions leaves on the events evs.
Outcome2D(evs) ==
    LET r == CheckBrickCollisions([game |-> game, world |-> world,
                                   hits |-> <<>>], evs)
    IN <<r.game, r.world.bodies>>

(* C27: the round transitions are deterministic: from one state, two       *)
(* deliveries of the same set of contact-begin events, in whatever order   *)
(* and on whatever threads, leave the same score, attempts, flags and      *)
(* target liveness.                                                        *)
C27_SameEventsSameOutcome ==
    /\ (Is3D /\ pc = "update") =>
          \A evs1 \in EventLists3D, evs2 \in EventLists3D :
             EventSet(evs1) = EventSet(evs2)
             => \A o1 \in Outcomes3D(evs1), o2 \in Outcomes3D(evs2) : o1 = o2
    /\ (Is2D /\ pc = "step") =>
          \A evs1 \in EventLists2D, evs2 \in EventLists2D :
             EventSet(evs1) = EventSet(evs2) => Outcome2D(evs1) = Outcome2D(evs2)

\* The place of a phase in the stated order of a frame: input and paddle,
\* launch and reset decisions, physics step with its contact resolution,
\* round-state update (speed, out-of-bounds, all-cleared).
PhaseRank(p) ==
    CASE p \in {"begin"} -> 0
      [] p \in {"paddle"} -> 1
      [] p \in {"follow", "launch"} -> 2
      [] p \in {"reset"} -> 3
      [] p \in {"step", "update"} -> 4
      [] p \in {"maintain"} -> 5
      [] p \in {"lost", "bounds"} -> 6
      [] p \in {"win", "allhit"} -> 7

\* The step ends a frame: the 2D win check (373-376) or the 3D
\* physicsSystem.Update (475-477) was the phase taken, or the 2D frame
\* returned at its top in GameOver or GameWon.
FrameEnds == pc \in {"win", "update"} \/ (pc = "begin" /\ pc' = "begin")

(* C28: in every frame the phases run in the order input, paddle, launch   *)
(* and reset decisions, one physics step with its contact resolution,      *)
(* round-state update; the out-of-bounds and all-cleared checks come after *)
(* the physics step of their frame and end it.                             *)
C28_PhasesInOrder ==
    [][IF FrameEnds THEN PhaseRank(pc') <= 1
       ELSE PhaseRank(pc') > PhaseRank(pc)]_vars

\* The ball position p is past a boundary plane, as the planes are stated:
\* 3D y < -2, z > ARENA_DEPTH/2 + 5, z < -ARENA_DEPTH/2 - 5 or
\* |x| > ARENA_WIDTH/2 + 5; 2D y < 0.
PastPlane3D(p) ==
    \/ p[2] < -120
    \/ p[3] > 900 + 300
    \/ p[3] < -900 - 300
    \/ p[1] > 600 + 300 \/ p[1] < -600 - 300

PastPlane2D(p) == p[2] < 0

\* The step loses the round: the ball leaves play, or a life is taken,
\* other than by a reset.
RoundLost3D ==
    Is3D /\ gameState.ballInPlay /\ ~gameState'.ballInPlay /\ ~ResetAccepted3D

RoundLost2D == Is2D /\ game'.lives < game.lives

(* C29: the round is lost exactly in the step of the boundary check that   *)
(* finds the ball in play and past a boundary plane; with the ball not in  *)
(* play the boundary check changes nothing.                                *)
C29_LostIffPastPlane ==
    [][/\ RoundLost3D <=> /\ Is3D /\ pc = "bounds" /\ gameState.ballInPlay
                          /\ PastPlane3D(physicsSystem.ballPos)
       /\ RoundLost2D <=> /\ Is2D /\ pc = "lost" /\ game.ballLaunched
                          /\ PastPlane2D(world.ballPos)
       /\ (Is3D /\ pc = "bounds" /\ ~gameState.ballInPlay)
            => UNCHANGED <<gameState, physicsSystem, gameOver>>
       /\ (Is2D /\ pc = "lost" /\ ~game.ballLaunched)
            => UNCHANGED <<game, world>>]_vars

C29_Witness ==
    /\ Is3D /\ pc = "allhit" /\ ~gameState.ballInPlay /\ losses = 1
    /\ gameState.ballsRemaining = INITIAL_BALLS - 1
    /\ physicsSystem.ballPos = DockPos3D(paddlePos)
    /\ clearings = 0 /\ gameState.score = 0 /\ Gen3D = 1

\* The points of the tier of the height y as the tiers are stated.
TierPoints3D(y) == IF y >= 3 THEN 30 ELSE IF y >= 2 /\ y < 3 THEN 20 ELSE 10

\* The row of the i-th brick.
RowOf(i) == (i - 1) \div BRICK_COLS

(* C30: every spawned target has the point value of its tier alone, the    *)
(* tiers being ordered and disjoint and at least three: 3D 30 from y >= 3, *)
(* 20 from 2 <= y < 3, 10 below; 2D hitPoints = BRICK_ROWS - row, scored   *)
(* tenfold; the tier evaluated first is worth strictly more, none is worth *)
(* 0 or less.                                                              *)
C30_PointsByTier ==
    /\ (Is3D /\ pc /= "setup") =>
          /\ \A i \in 1..Len(gameState.targets) :
                /\ gameState.targets[i].points
                     = TierPoints3D(gameState.targets[i].position[2])
                /\ gameState.targets[i].points > 0
          /\ {TargetPoints(y) : y \in 1..4} = {10, 20, 30}
          /\ \A y1 \in 1..4, y2 \in 1..4 :
                y1 <= y2 => TargetPoints(y1) <= TargetPoints(y2)
    /\ Is2D =>
          /\ \A i \in 1..Len(game.bricks) :
                /\ game.bricks[i].hitPoints = BRICK_ROWS - RowOf(i)
                /\ game.bricks[i].hitPoints > 0
                /\ Points2D[i] = 10 * (BRICK_ROWS - RowOf(i))
          /\ \A i \in 1..Len(game.bricks), j \in 1..Len(game.bricks) :
                RowOf(i) < RowOf(j)
                => game.bricks[i].hitPoints > game.bricks[j].hitPoints
          /\ Cardinality({game.bricks[i].hitPoints : i \in 1..Len(game.bricks)})
               >= 3

C30_Witness ==
    /\ Is3D /\ pc = "paddle"
    /\ gameState.targets[1].position[2] = 2 /\ gameState.targets[1].points = 20
    /\ gameState.targets[2].position[2] = 4 /\ gameState.targets[2].points = 30

(* C31: over any sequence of hits, respawns, resets and the shutdown, the  *)
(* body of a target is removed and destroyed at most once: no destroy call *)
(* is made for a handle whose body is already destroyed.                   *)
C31_NoBodyDestroyedTwice ==
    /\ Is3D => ~physicsSystem.destroyedTwice
    /\ Is2D => ~world.destroyedTwice

C31_Witness ==
    /\ Is3D /\ pc = "closed" /\ Gen3D = MaxGen /\ hitSum > 0
    /\ physicsSystem.added = {}
    /\ ~physicsSystem.destroyedTwice

\* After the step the game is Idle with paddle and ball where setup put them.
IdleAtDefaults3D ==
    /\ ~gameState'.ballInPlay /\ ~gameOver'
    /\ paddlePos' = PaddleStart3D
    /\ physicsSystem'.paddle = PaddleStart3D
    /\ physicsSystem'.ballPos = DockPos3D(PaddleStart3D)

IdleAtDefaults2D ==
    /\ ~game'.ballLaunched /\ ~game'.gameOver /\ ~game'.gameWon
    /\ world'.paddleX = WORLD_WIDTH \div 2
    /\ world'.ballPos = DockPos2D(WORLD_WIDTH \div 2)

(* C32: after an accepted reset the game is Idle (ball not launched, no    *)
(* terminal flag) with the paddle and the ball at their default start      *)
(* positions, wherever the paddle was before the reset.                    *)
C32_ResetDefaultPositions ==
    [][/\ ResetAccepted3D => IdleAtDefaults3D
       /\ ResetAccepted2D => IdleAtDefaults2D]_vars

\* The step is the all-targets-hit check of a frame that finds the wave cleared.
WaveCleared3D == Is3D /\ pc = "allhit" /\ AllHit(gameState.targets)

(* C33: in the 2D program the win state is permanent: once gameWon is set  *)
(* no frame changes it, the score, the lives, the bricks or the physics    *)
(* world until a reset is accepted. The 3D program has no win state:       *)
(* clearing a wave sets no terminal flag and always yields a new wave of   *)
(* NUM_TARGETS live targets.                                               *)
C33_WinPermanentWaveRespawns ==
    [][/\ (Is2D /\ game.gameWon /\ ~ResetAccepted2D) => UNCHANGED <<game, world>>
       /\ WaveCleared3D => /\ FreshTargets3D
                           /\ Gen3D' = Gen3D + 1
                           /\ UNCHANGED gameOver]_vars

C33_Witness ==
    /\ Is2D /\ pc = "begin" /\ game.gameWon /\ ~game.gameOver
    /\ \A i \in 1..Len(game.bricks) : game.bricks[i].destroyed
    /\ game.lives < INITIAL_LIVES

(* C34: in the 2D program the terminal flags exclude each other: no state  *)
(* has gameOver and gameWon both set, the frame whose step loses the last  *)
(* life and destroys the last brick included.                              *)
C34_TerminalFlagsExclusive ==
    Is2D => ~(game.gameOver /\ game.gameWon)

\* The targets the step deactivates.
Deactivated3D ==
    {i \in 1..Len(gameState.targets) :
        gameState.targets[i].active /\ ~gameState'.targets[i].active}

(* C35: in the 3D program the callbacks delivered for distinct targets in  *)
(* one physics step, on whatever worker threads, lose no update: the step  *)
(* raises the score by the sum of the points of all the targets it         *)
(* deactivates.                                                            *)
C35_NoLostScoreUpdate ==
    [][(Is3D /\ pc = "update") =>
          gameState'.score =
             gameState.score
             + SumOver([i \in 1..Len(gameState.targets) |->
                           gameState.targets[i].points], Deactivated3D)]_vars

\* The ball is not in play: docked before a launch, or the game is over.
NotInPlay3D == Is3D /\ (~gameState.ballInPlay \/ gameOver)
NotInPlay2D == Is2D /\ (~game.ballLaunched \/ game.gameOver)

(* C36: the score changes only while the ball is in play: with the ball    *)
(* docked (Idle) or the game over no step raises the score, whatever       *)
(* contacts the physics step reports.                                      *)
C36_ScoreOnlyInPlay ==
    [][/\ NotInPlay3D => gameState'.score <= gameState.score
       /\ NotInPlay2D => game'.score <= game.score]_vars

\* The bodies of the physics system that are neither floor, wall, paddle
\* nor ball: the target bodies.
TargetBodies3D == physicsSystem.added \ {<<i, 1>> : i \in 0..BallIdx}

(* C37: in the 3D program the physics system holds exactly NUM_TARGETS     *)
(* target bodies in every state after setup, the bodies of the registered  *)
(* targets: over hits, respawns and resets ResetTargets removes every old  *)
(* target body, hit or not, before it creates the new ones.                *)
C37_TargetBodiesConstant ==
    Is3D => /\ Cardinality(TargetBodies3D) = NUM_TARGETS
            /\ TargetBodies3D = TargetIds3D(gameState)

C37_Witness ==
    /\ Is3D /\ Gen3D = MaxGen - 1 /\ reactions > 0 /\ gameState.score > 0
    /\ ~AllHit(gameState.targets)
    /\ \E i \in 1..NUM_TARGETS : ~gameState.targets[i].active
    /\ Cardinality(TargetBodies3D) = NUM_TARGETS

(* C38: in the 3D program gameOver implies ballsRemaining = 0 and the ball *)
(* not in play; gameOver is set only by the out-of-bounds detection of the *)
(* last ball and cleared only by a reset.                                  *)
C38_GameOverMeansNoBalls ==
    [][Is3D =>
         /\ gameOver' => gameState'.ballsRemaining = 0 /\ ~gameState'.ballInPlay
         /\ (~gameOver /\ gameOver') =>
                OutDetected3D /\ gameState.ballsRemaining = 0
         /\ (gameOver /\ ~gameOver') => ResetAccepted3D]_vars

C38_Witness ==
    /\ Is3D /\ pc = "launch" /\ gameOver /\ losses = INITIAL_BALLS
    /\ gameState.ballsRemaining = 0 /\ ~gameState.ballInPlay

(* C39: in the 2D program gameOver holds exactly when lives = 0: a         *)
(* detected ball loss takes exactly one life, nothing else but an accepted *)
(* reset changes lives (a launch never does), and gameOver is set in the   *)
(* frame that takes lives to 0.                                            *)
C39_GameOverIffNoLives ==
    [][Is2D =>
         /\ game'.gameOver <=> game'.lives = 0
         /\ OutDetected2D => game'.lives = game.lives - 1
         /\ game'.lives /= game.lives => OutDetected2D \/ ResetAccepted2D]_vars

C39_Witness ==
    /\ Is2D /\ pc = "win" /\ game.gameOver /\ game.lives = 0
    /\ losses = INITIAL_LIVES /\ game.ballLaunched

\* The worth of the full grid: ten points per hit point, rows worth
\* BRICK_ROWS down to 1, BRICK_COLS bricks a row.
GridTotal == 10 * BRICK_COLS * ((BRICK_ROWS * (BRICK_ROWS + 1)) \div 2)

(* C40: in the 2D program the score never exceeds the worth of the full    *)
(* grid, 10 * BRICK_COLS * (BRICK_ROWS + ... + 1), and in the win state    *)
(* the score is exactly that total.                                        *)
C40_ScoreWithinGridTotal ==
    Is2D => /\ game.score <= GridTotal
            /\ game.gameWon => game.score = GridTotal

C40_Witness ==
    /\ Is2D /\ game.gameWon /\ game.score = GridTotal
    /\ world.generation = 1

=============================================================================
